---- MODULE Spec2Model ----
(***************************************************************************)
(* Membership workflow of the GoGoStudy API (studies router mounted at     *)
(* /studies, src/src/modules/studies/studies.routes.ts lines 684-1649).    *)
(*                                                                         *)
(* The relational store is modelled table by table.  Every handler is a    *)
(* sequence of store calls (its await points); XxxStep runs one store call *)
(* of handler Xxx together with the synchronous code that follows it.      *)
(* A request that does not overlap any other request runs all its steps    *)
(* in one transition (specification Spec); in SpecC the steps of up to     *)
(* NumReq requests interleave.                                             *)
(***************************************************************************)
EXTENDS Integers, Sequences, FiniteSets, TLC

VARIABLES Study, StudyMember, nextStudyId, AttendanceSession, AttendanceRecord,
          nextSessionId, nextRecordId, reqs, last,
          User, redisStore, issued, now, env, redisModule

vars == <<Study, StudyMember, nextStudyId, AttendanceSession, AttendanceRecord,
          nextSessionId, nextRecordId, reqs, last,
          User, redisStore, issued, now, env, redisModule>>

\* ---------------------------------------------------------------- bounds
NumUsers == 3
MaxStudyId == 1
MaxCap == 2
NumReq == 2
MaxSessionId == 2
MaxRecordId == 2
MaxDate == 2
MaxPageInput == 3
MaxSizeInput == 51
MaxEmailLen == 1
MaxPairs == 3
MaxTime == 2

Users == 1..NumUsers
\* the ids of the studies the membership specifications create and name
StudyIds == 1..MaxStudyId
\* those and the id of one more study, which the summary specification uses
AllStudyIds == 1..(MaxStudyId + 1)
Reqs == 1..NumReq
SessionIds == 1..MaxSessionId
Dates == 1..MaxDate

\* ------------------------------------------------------------ data model
\* User.role: the seed makes the first user ADMIN, every other user USER.
UserRole == [u \in Users |-> IF u = 1 THEN "ADMIN" ELSE "USER"]

MemberStatuses == {"APPROVED", "PENDING", "REJECTED"}

\* body.status of PATCH .../status: absent (""), a valid status or another string
StatusInputs == MemberStatuses \cup {"", "UNKNOWN"}

\* body.maxMembers: absent, null, a numeric value or a non-numeric value
MaxMembersInputs ==
    {[kind |-> k, n |-> 0] : k \in {"undefined", "null", "NaN"}}
        \cup {[kind |-> "number", n |-> k] : k \in 0..MaxCap}

\* request bodies of POST / and PATCH /:studyId; text says whether the text
\* fields the handler looks at (title, description, category) are present
Bodies == [text : BOOLEAN, maxMembers : MaxMembersInputs]

NoBody == [text |-> FALSE, maxMembers |-> [kind |-> "undefined", n |-> 0]]

\* a body with the text fields and nothing else
TextBody == [text |-> TRUE, maxMembers |-> [kind |-> "undefined", n |-> 0]]

AttendanceStatuses == {"PRESENT", "LATE", "ABSENT"}

\* body.status of POST .../attendance: absent (""), a valid status or another string
AttendanceInputs == AttendanceStatuses \cup {"", "UNKNOWN"}

\* a date given as a string (body.date, query.from, query.to): absent, a
\* string that new Date() cannot parse, or the string of instant d
DateInputs ==
    {[kind |-> k, d |-> 0] : k \in {"absent", "invalid"}}
        \cup {[kind |-> "date", d |-> k] : k \in 0..(MaxDate + 1)}

NoDate == [kind |-> "absent", d |-> 0]

\* a query parameter handed to Number(): absent (undefined), a string that
\* is not a number, or the string of the integer n
ParamInputs(max) ==
    {[kind |-> k, n |-> 0] : k \in {"absent", "text"}}
        \cup {[kind |-> "number", n |-> k] : k \in (-2)..max}

NoParam == [kind |-> "absent", n |-> 0]

\* the characters of an email address; body.email is absent (<< >>) or a
\* string of them
Letters == {"a", "A", "b"}

EmailsOfLen(n) == [1..n -> Letters]

EmailInputs == {<< >>} \cup UNION {EmailsOfLen(n) : n \in 1..MaxEmailLen}

\* ACCESS_TOKEN_TTL_SECONDS and REFRESH_TOKEN_TTL_SECONDS (defaults 15 minutes
\* and 7 days), in ticks of the clock
AccessTtl == 1

RefreshTtl == 2

\* the token pairs signed so far are numbered 1, 2, ...: pair k holds the
\* access token with jti k and the refresh token with sessionId k
PairIds == 1..MaxPairs

\* the keys of the fast store: one per token identifier
RedisKeys == {"access", "refresh"} \X PairIds

\* An optional value (a nullable column, the result of findUnique) is a
\* sequence of length 0 (null) or 1.
Null == << >>

\* JavaScript truthiness of a nullable integer: null and 0 are falsy
Truthy(opt) == opt # Null /\ opt[1] # 0

\* Number(x) for a body value that is neither undefined nor null
IsNaN(input) == input.kind = "NaN"

RECURSIVE SumOver(_, _)
SumOver(S, f) ==
    IF S = {} THEN 0
    ELSE LET x == CHOOSE y \in S : TRUE IN f[x] + SumOver(S \ {x}, f)

\* the store as one value, so that a handler can be run over it
db ==
    [Study |-> Study, StudyMember |-> StudyMember, nextStudyId |-> nextStudyId,
     AttendanceSession |-> AttendanceSession, AttendanceRecord |-> AttendanceRecord,
     nextSessionId |-> nextSessionId, nextRecordId |-> nextRecordId]

\* ------------------------------------------------------------ store calls
\* prisma.study.findUnique({ where: { id } })
StudyFindUnique(d, id) == d.Study[id]

\* prisma.studyMember.findUnique({ where: { studyId_userId } })
StudyMemberFindUnique(d, s, u) ==
    IF d.StudyMember[<<s, u>>] = << >> THEN Null ELSE <<Head(d.StudyMember[<<s, u>>])>>

\* prisma.studyMember.count({ where: { studyId, status: "APPROVED", NOT: { userId } } });
\* skip is the set of excluded user ids
ApprovedCount(d, s, skip) ==
    SumOver(Users \ skip,
            [u \in Users |->
                Cardinality({i \in DOMAIN d.StudyMember[<<s, u>>] :
                                d.StudyMember[<<s, u>>][i].status = "APPROVED"})])

\* INSERT INTO "StudyMember" without the unique index
StudyMemberCreateNoIndex(d, s, u, role, status) ==
    [ok |-> TRUE,
     db |-> [d EXCEPT !.StudyMember[<<s, u>>] =
                Append(@, [memberRole |-> role, status |-> status])]]

\* prisma.studyMember.create: the unique index StudyMember_studyId_userId_key
\* rejects a second row of the same (studyId, userId)
StudyMemberCreate(d, s, u, role, status) ==
    IF d.StudyMember[<<s, u>>] # << >>
    THEN [ok |-> FALSE, db |-> d]
    ELSE [ok |-> TRUE,
          db |-> [d EXCEPT !.StudyMember[<<s, u>>] =
                    Append(@, [memberRole |-> role, status |-> status])]]

\* prisma.studyMember.update({ where: { studyId_userId }, data: { status } });
\* throws when no row has the key
StudyMemberUpdate(d, s, u, status) ==
    IF d.StudyMember[<<s, u>>] = << >>
    THEN [ok |-> FALSE, db |-> d]
    ELSE [ok |-> TRUE,
          db |-> [d EXCEPT !.StudyMember[<<s, u>>] =
                    [i \in DOMAIN @ |-> [@[i] EXCEPT !.status = status]]]]

\* prisma.studyMember.delete({ where: { studyId_userId } }); throws when no
\* row has the key
StudyMemberDelete(d, s, u) ==
    IF d.StudyMember[<<s, u>>] = << >>
    THEN [ok |-> FALSE, db |-> d]
    ELSE [ok |-> TRUE, db |-> [d EXCEPT !.StudyMember[<<s, u>>] = << >>]]

\* prisma.attendanceSession.findUnique({ where: { id } })
AttendanceSessionFindUnique(d, id) == d.AttendanceSession[id]

\* prisma.attendanceSession.create({ data: { studyId, title, date } })
AttendanceSessionCreate(d, s, date) ==
    [d EXCEPT !.AttendanceSession[d.nextSessionId] = <<[studyId |-> s, date |-> date]>>,
              !.nextSessionId = @ + 1]

\* prisma.attendanceSession.findMany({ where: { studyId } }): the ids found
SessionsOf(d, s) ==
    {i \in SessionIds : d.AttendanceSession[i] # Null /\ d.AttendanceSession[i][1].studyId = s}

\* prisma.attendanceRecord.findFirst({ where: { sessionId, userId } }) has no
\* orderBy: when several rows match, the store may return any of them.  The
\* result is the position of the row among the rows of the pair, 0 for null;
\* newest says which end the store takes.
AttendanceRecordFindFirst(d, i, u, newest) ==
    IF d.AttendanceRecord[<<i, u>>] = << >> THEN 0
    ELSE IF newest THEN Len(d.AttendanceRecord[<<i, u>>]) ELSE 1

\* prisma.attendanceRecord.update({ where: { id }, data: { status } })
AttendanceRecordUpdate(d, i, u, row, status) ==
    [d EXCEPT !.AttendanceRecord[<<i, u>>][row].status = status]

\* prisma.attendanceRecord.create({ data: { sessionId, userId, status } });
\* the table has no unique index on (sessionId, userId)
AttendanceRecordCreate(d, i, u, status) ==
    [d EXCEPT !.AttendanceRecord[<<i, u>>] =
                    Append(@, [id |-> d.nextRecordId, status |-> status]),
              !.nextRecordId = @ + 1]

\* prisma.attendanceSession.delete without the foreign key of AttendanceRecord
AttendanceSessionDeleteNoRestrict(d, i) ==
    IF d.AttendanceSession[i] = << >> THEN [ok |-> FALSE, db |-> d]
    ELSE [ok |-> TRUE, db |-> [d EXCEPT !.AttendanceSession[i] = << >>]]

\* prisma.attendanceSession.delete({ where: { id } }); throws when no row
\* has the id, and when an AttendanceRecord row references the session
\* (AttendanceRecord_sessionId_fkey, ON DELETE RESTRICT)
AttendanceSessionDelete(d, i) ==
    IF d.AttendanceSession[i] = << >> THEN [ok |-> FALSE, db |-> d]
    ELSE IF \E u \in Users : d.AttendanceRecord[<<i, u>>] # << >>
    THEN [ok |-> FALSE, db |-> d]
    ELSE [ok |-> TRUE, db |-> [d EXCEPT !.AttendanceSession[i] = << >>]]

\* the prisma.$transaction of DELETE /:studyId: deleteMany of the records of
\* the study's sessions, of its sessions and of its memberships, then
\* study.delete; a throw rolls everything back
DeleteStudyTransaction(d, s) ==
    IF d.Study[s] = << >> THEN [ok |-> FALSE, db |-> d]
    ELSE LET sessionIds == {i \in SessionIds :
                                d.AttendanceSession[i] # << >>
                                /\ d.AttendanceSession[i][1].studyId = s}
         IN  [ok |-> TRUE,
              db |-> [d EXCEPT
                !.AttendanceRecord = [k \in DOMAIN @ |-> IF k[1] \in sessionIds THEN << >> ELSE @[k]],
                !.AttendanceSession = [i \in DOMAIN @ |-> IF i \in sessionIds THEN << >> ELSE @[i]],
                !.StudyMember = [k \in DOMAIN @ |-> IF k[1] = s THEN << >> ELSE @[k]],
                !.Study[s] = << >>]]

\* the number of rows of status st among the rows of the pairs in keys
CountStatus(d, keys, st) ==
    SumOver(keys,
            [k \in SessionIds \X Users |->
                Cardinality({n \in DOMAIN d.AttendanceRecord[k] :
                                d.AttendanceRecord[k][n].status = st})])

\* prisma.attendanceRecord.groupBy({ by: ["status"], where, _count }): one
\* group per status that has rows; keys are the pairs the where clause keeps
GroupByStatus(d, keys) ==
    LET found == {st \in AttendanceStatuses : CountStatus(d, keys, st) > 0} IN
    [st \in found |-> CountStatus(d, keys, st)]

\* grouped.reduce((acc, item) => { acc[item.status] = n; acc.total += n }, { total: 0 })
Summarize(grouped) ==
    [total |-> SumOver(DOMAIN grouped, grouped), counts |-> grouped]

\* Number(param) || fallback: NaN (undefined, a non-numeric string) and 0
\* are falsy
NumberOr(param, fallback) ==
    IF param.kind = "number" /\ param.n # 0 THEN param.n ELSE fallback

Max(a, b) == IF a >= b THEN a ELSE b

Min(a, b) == IF a <= b THEN a ELSE b

\* parsePagination without the upper bound of pageSize
parsePaginationNoCap(pageParam, sizeParam) ==
    LET page == Max(1, NumberOr(pageParam, 1))
        pageSize == Max(1, NumberOr(sizeParam, 10))
    IN  [page |-> page, pageSize |-> pageSize,
         skip |-> (page - 1) * pageSize, take |-> pageSize]

\* parsePagination(pageParam, sizeParam)
parsePagination(pageParam, sizeParam) ==
    LET page == Max(1, NumberOr(pageParam, 1))
        pageSize == Min(50, Max(1, NumberOr(sizeParam, 10)))
        skip == (page - 1) * pageSize
    IN  [page |-> page, pageSize |-> pageSize, skip |-> skip, take |-> pageSize]

\* ------------------------------------------------------- request contexts
\* The position (pc) and the locals of one request.
Ctx(op, pc, actor, s, u, status, body, fault) ==
    [op |-> op, pc |-> pc, actor |-> actor, studyId |-> s, userId |-> u,
     status |-> status, body |-> body, fault |-> fault, study |-> Null,
     sessionId |-> 0, date |-> NoDate, from |-> NoDate, to |-> NoDate,
     newest |-> FALSE, existing |-> 0, out |-> Null,
     page |-> NoParam, size |-> NoParam, token |-> 0]

Idle == Ctx("idle", "", 0, 0, 0, "", NoBody, FALSE)

\* the outcome of one step: the store after it, and either the context to
\* continue from or the response
Continue(d, c, pc) ==
    [db |-> d, ctx |-> [c EXCEPT !.pc = pc], done |-> FALSE, http |-> 0, code |-> ""]

Respond(d, c, http) ==
    [db |-> d, ctx |-> c, done |-> TRUE, http |-> http, code |-> "OK"]

\* throw createError(message, { statusCode, code }) -> next(error)
Throw(d, c, http, code) ==
    [db |-> d, ctx |-> c, done |-> TRUE, http |-> http, code |-> code]

\* an error that is not an AppError (a failed store call): 500 INTERNAL_ERROR
ThrowUnknown(d, c) == Throw(d, c, 500, "INTERNAL_ERROR")

\* requireStudyLeader(param): the study's leader or an ADMIN may pass
requireStudyLeader(d, c) ==
    LET study == StudyFindUnique(d, c.studyId) IN
    IF study = Null THEN "STUDY_NOT_FOUND"
    ELSE IF study[1].leaderId = c.actor \/ UserRole[c.actor] = "ADMIN" THEN "pass"
    ELSE "FORBIDDEN"

\* The handlers behind requireStudyLeader never read req.user: the context
\* they run in keeps the path parameters and the body only.
Handler(c) == [c EXCEPT !.actor = 0]

RbacThrow(d, c, verdict) ==
    IF verdict = "STUDY_NOT_FOUND" THEN Throw(d, c, 404, "STUDY_NOT_FOUND")
    ELSE Throw(d, c, 403, "FORBIDDEN")

\* ----------------------------------------------------------------- handlers
\* Number(maxMembers) of POST /: undefined and null give null
ParsedMaxMembers(input) ==
    IF input.kind \in {"undefined", "null"} THEN Null ELSE <<input.n>>

\* POST / without the transaction: a failed membership insert leaves the
\* study row behind
CreateStudyStepNoTx(d, c) ==
    IF ~c.body.text THEN Throw(d, c, 400, "INVALID_PAYLOAD")
    ELSE IF IsNaN(c.body.maxMembers) THEN Throw(d, c, 400, "INVALID_PAYLOAD")
    ELSE
        LET id == d.nextStudyId
            created == [leaderId |-> c.actor,
                        maxMembers |-> ParsedMaxMembers(c.body.maxMembers)]
            d1 == [d EXCEPT !.Study[id] = <<created>>, !.nextStudyId = @ + 1]
            m == IF c.fault THEN [ok |-> FALSE, db |-> d1]
                 ELSE StudyMemberCreate(d1, id, c.actor, "LEADER", "APPROVED")
        IN  IF m.ok THEN Respond(m.db, [c EXCEPT !.studyId = id], 201)
            ELSE ThrowUnknown(d1, c)

\* POST / (createStudy): payload checks, then prisma.$transaction creating
\* the Study row and the creator's LEADER/APPROVED StudyMember row.  c.fault
\* is a membership insert that throws; the transaction then rolls back.
CreateStudyStep(d, c) ==
    IF ~c.body.text THEN Throw(d, c, 400, "INVALID_PAYLOAD")
    ELSE IF IsNaN(c.body.maxMembers) THEN Throw(d, c, 400, "INVALID_PAYLOAD")
    ELSE
        LET id == d.nextStudyId
            created == [leaderId |-> c.actor,
                        maxMembers |-> ParsedMaxMembers(c.body.maxMembers)]
            d1 == [d EXCEPT !.Study[id] = <<created>>, !.nextStudyId = @ + 1]
            m == IF c.fault THEN [ok |-> FALSE, db |-> d1]
                 ELSE StudyMemberCreate(d1, id, c.actor, "LEADER", "APPROVED")
        IN  IF m.ok THEN Respond(m.db, [c EXCEPT !.studyId = id], 201)
            ELSE ThrowUnknown(d, c)

\* PATCH /:studyId (updateStudy)
UpdateStudyStep(d, c) ==
    CASE c.pc = "rbac" ->
            LET verdict == requireStudyLeader(d, c) IN
            IF verdict # "pass" THEN RbacThrow(d, c, verdict)
            ELSE IF c.body.maxMembers.kind = "NaN"
                 THEN Throw(d, c, 400, "INVALID_PAYLOAD")
            ELSE IF ~c.body.text /\ c.body.maxMembers.kind = "undefined"
                 THEN Throw(d, c, 400, "INVALID_PAYLOAD")
            ELSE Continue(d, Handler(c), "update")
      [] c.pc = "update" ->
            IF d.Study[c.studyId] = Null THEN ThrowUnknown(d, c)
            ELSE IF c.body.maxMembers.kind = "undefined" THEN Respond(d, c, 200)
            ELSE Respond([d EXCEPT !.Study[c.studyId][1].maxMembers =
                                ParsedMaxMembers(c.body.maxMembers)], c, 200)

\* POST /:studyId/join
JoinStep(d, c) ==
    CASE c.pc = "getStudy" ->
            LET study == StudyFindUnique(d, c.studyId) IN
            IF study = Null THEN Throw(d, c, 404, "STUDY_NOT_FOUND")
            ELSE Continue(d, [c EXCEPT !.study = study], "findExisting")
      [] c.pc = "findExisting" ->
            LET existing == StudyMemberFindUnique(d, c.studyId, c.actor) IN
            IF existing # Null THEN Throw(d, c, 409, "ALREADY_JOINED")
            ELSE IF Truthy(c.study[1].maxMembers) THEN Continue(d, c, "count")
            ELSE Continue(d, c, "create")
      [] c.pc = "count" ->
            LET count == ApprovedCount(d, c.studyId, {}) IN
            IF count >= c.study[1].maxMembers[1] THEN Throw(d, c, 409, "STUDY_FULL")
            ELSE Continue(d, c, "create")
      [] c.pc = "create" ->
            LET m == StudyMemberCreate(d, c.studyId, c.actor, "MEMBER", "PENDING") IN
            IF m.ok THEN Respond(m.db, c, 201) ELSE ThrowUnknown(d, c)

\* PATCH /:studyId/members/:userId/status (setMemberStatus)
SetMemberStatusStep(d, c) ==
    CASE c.pc = "rbac" ->
            LET verdict == requireStudyLeader(d, c) IN
            IF verdict # "pass" THEN RbacThrow(d, c, verdict)
            ELSE IF c.status = "" THEN Throw(d, c, 400, "INVALID_PAYLOAD")
            ELSE IF c.status \notin MemberStatuses
                 THEN Throw(d, c, 422, "INVALID_MEMBER_STATUS")
            ELSE Continue(d, Handler(c), "getStudy")
      [] c.pc = "getStudy" ->
            LET study == StudyFindUnique(d, c.studyId) IN
            IF study = Null THEN Throw(d, c, 404, "STUDY_NOT_FOUND")
            ELSE Continue(d, [c EXCEPT !.study = study], "findMembership")
      [] c.pc = "findMembership" ->
            LET membership == StudyMemberFindUnique(d, c.studyId, c.userId) IN
            IF membership = Null THEN Throw(d, c, 404, "MEMBERSHIP_NOT_FOUND")
            ELSE IF membership[1].memberRole = "LEADER"
                 THEN Throw(d, c, 400, "INVALID_OPERATION")
            ELSE IF c.status = "APPROVED" /\ Truthy(c.study[1].maxMembers)
                 THEN Continue(d, c, "count")
            ELSE Continue(d, c, "update")
      [] c.pc = "count" ->
            LET approvedCount == ApprovedCount(d, c.studyId, {c.userId}) IN
            IF approvedCount >= c.study[1].maxMembers[1]
            THEN Throw(d, c, 409, "STUDY_FULL")
            ELSE Continue(d, c, "update")
      [] c.pc = "update" ->
            LET m == StudyMemberUpdate(d, c.studyId, c.userId, c.status) IN
            IF m.ok THEN Respond(m.db, c, 200) ELSE ThrowUnknown(d, c)

\* DELETE /:studyId/members/:userId without the leader guard
RemoveMemberStepNoGuard(d, c) ==
    CASE c.pc = "rbac" ->
            LET verdict == requireStudyLeader(d, c) IN
            IF verdict # "pass" THEN RbacThrow(d, c, verdict)
            ELSE Continue(d, Handler(c), "findMembership")
      [] c.pc = "findMembership" ->
            LET membership == StudyMemberFindUnique(d, c.studyId, c.userId) IN
            IF membership = Null THEN Throw(d, c, 404, "MEMBERSHIP_NOT_FOUND")
            ELSE Continue(d, c, "delete")
      [] c.pc = "delete" ->
            LET m == StudyMemberDelete(d, c.studyId, c.userId) IN
            IF m.ok THEN Respond(m.db, c, 204) ELSE ThrowUnknown(d, c)

\* DELETE /:studyId/members/:userId (removeMember)
RemoveMemberStep(d, c) ==
    CASE c.pc = "rbac" ->
            LET verdict == requireStudyLeader(d, c) IN
            IF verdict # "pass" THEN RbacThrow(d, c, verdict)
            ELSE Continue(d, Handler(c), "findMembership")
      [] c.pc = "findMembership" ->
            LET membership == StudyMemberFindUnique(d, c.studyId, c.userId) IN
            IF membership = Null THEN Throw(d, c, 404, "MEMBERSHIP_NOT_FOUND")
            ELSE IF membership[1].memberRole = "LEADER"
                 THEN Throw(d, c, 400, "INVALID_OPERATION")
            ELSE Continue(d, c, "delete")
      [] c.pc = "delete" ->
            LET m == StudyMemberDelete(d, c.studyId, c.userId) IN
            IF m.ok THEN Respond(m.db, c, 204) ELSE ThrowUnknown(d, c)

\* POST /:studyId/members/leave without the leader guard
LeaveStepNoGuard(d, c) ==
    CASE c.pc = "findMembership" ->
            LET membership == StudyMemberFindUnique(d, c.studyId, c.actor) IN
            IF membership = Null THEN Throw(d, c, 404, "MEMBERSHIP_NOT_FOUND")
            ELSE Continue(d, c, "delete")
      [] c.pc = "delete" ->
            LET m == StudyMemberDelete(d, c.studyId, c.actor) IN
            IF m.ok THEN Respond(m.db, c, 204) ELSE ThrowUnknown(d, c)

\* POST /:studyId/members/leave
LeaveStep(d, c) ==
    CASE c.pc = "findMembership" ->
            LET membership == StudyMemberFindUnique(d, c.studyId, c.actor) IN
            IF membership = Null THEN Throw(d, c, 404, "MEMBERSHIP_NOT_FOUND")
            ELSE IF membership[1].memberRole = "LEADER"
                 THEN Throw(d, c, 400, "INVALID_OPERATION")
            ELSE Continue(d, c, "delete")
      [] c.pc = "delete" ->
            LET m == StudyMemberDelete(d, c.studyId, c.actor) IN
            IF m.ok THEN Respond(m.db, c, 204) ELSE ThrowUnknown(d, c)

\* ensureApprovedMember that accepts a row of any status
ensureMemberOfAnyStatus(d, s, u) == StudyMemberFindUnique(d, s, u) # Null

\* ensureApprovedMember(studyId, userId): the membership row must be APPROVED
ensureApprovedMember(d, s, u) ==
    LET membership == StudyMemberFindUnique(d, s, u) IN
    membership # Null /\ membership[1].status = "APPROVED"

\* POST /:studyId/sessions (createSession)
CreateSessionStep(d, c) ==
    CASE c.pc = "rbac" ->
            LET verdict == requireStudyLeader(d, c) IN
            IF verdict # "pass" THEN RbacThrow(d, c, verdict)
            ELSE IF ~c.body.text \/ c.date.kind = "absent"
                 THEN Throw(d, c, 400, "INVALID_PAYLOAD")
            ELSE IF c.date.kind = "invalid" THEN Throw(d, c, 400, "INVALID_DATE")
            ELSE Continue(d, Handler(c), "create")
      [] c.pc = "create" ->
            Respond(AttendanceSessionCreate(d, c.studyId, c.date.d),
                    [c EXCEPT !.sessionId = d.nextSessionId], 201)

\* POST /:studyId/sessions/:sessionId/attendance that never looks for an
\* existing record
RecordAttendanceStepNoFind(d, c) ==
    CASE c.pc = "ensureMember" ->
            IF c.status \notin AttendanceStatuses THEN Throw(d, c, 400, "INVALID_STATUS")
            ELSE IF ~ensureApprovedMember(d, c.studyId, c.actor)
                 THEN Throw(d, c, 403, "NOT_A_MEMBER")
            ELSE Continue(d, c, "findSession")
      [] c.pc = "findSession" ->
            LET session == AttendanceSessionFindUnique(d, c.sessionId) IN
            IF session = Null \/ session[1].studyId # c.studyId
            THEN Throw(d, c, 404, "SESSION_NOT_FOUND")
            ELSE Continue(d, c, "findExisting")
      [] c.pc = "findExisting" -> Continue(d, [c EXCEPT !.existing = 0], "write")
      [] c.pc = "write" ->
            LET row == IF c.existing # 0 THEN c.existing
                       ELSE Len(d.AttendanceRecord[<<c.sessionId, c.actor>>]) + 1
                d1 == IF c.existing # 0
                      THEN AttendanceRecordUpdate(d, c.sessionId, c.actor, c.existing, c.status)
                      ELSE AttendanceRecordCreate(d, c.sessionId, c.actor, c.status)
            IN  Respond(d1, [c EXCEPT !.out = <<d1.AttendanceRecord[<<c.sessionId, c.actor>>][row]>>],
                        201)

\* POST /:studyId/sessions/:sessionId/attendance without ensureApprovedMember
RecordAttendanceStepNoMember(d, c) ==
    CASE c.pc = "ensureMember" ->
            IF c.status \notin AttendanceStatuses THEN Throw(d, c, 400, "INVALID_STATUS")
            ELSE Continue(d, c, "findSession")
      [] c.pc = "findSession" ->
            LET session == AttendanceSessionFindUnique(d, c.sessionId) IN
            IF session = Null \/ session[1].studyId # c.studyId
            THEN Throw(d, c, 404, "SESSION_NOT_FOUND")
            ELSE Continue(d, c, "findExisting")
      [] c.pc = "findExisting" ->
            LET existing == AttendanceRecordFindFirst(d, c.sessionId, c.actor, c.newest) IN
            Continue(d, [c EXCEPT !.existing = existing], "write")
      [] c.pc = "write" ->
            LET row == IF c.existing # 0 THEN c.existing
                       ELSE Len(d.AttendanceRecord[<<c.sessionId, c.actor>>]) + 1
                d1 == IF c.existing # 0
                      THEN AttendanceRecordUpdate(d, c.sessionId, c.actor, c.existing, c.status)
                      ELSE AttendanceRecordCreate(d, c.sessionId, c.actor, c.status)
            IN  Respond(d1, [c EXCEPT !.out = <<d1.AttendanceRecord[<<c.sessionId, c.actor>>][row]>>],
                        201)

\* POST /:studyId/sessions/:sessionId/attendance without the test of session.studyId
RecordAttendanceStepAnyStudy(d, c) ==
    CASE c.pc = "ensureMember" ->
            IF c.status \notin AttendanceStatuses THEN Throw(d, c, 400, "INVALID_STATUS")
            ELSE IF ~ensureApprovedMember(d, c.studyId, c.actor)
                 THEN Throw(d, c, 403, "NOT_A_MEMBER")
            ELSE Continue(d, c, "findSession")
      [] c.pc = "findSession" ->
            LET session == AttendanceSessionFindUnique(d, c.sessionId) IN
            IF session = Null
            THEN Throw(d, c, 404, "SESSION_NOT_FOUND")
            ELSE Continue(d, c, "findExisting")
      [] c.pc = "findExisting" ->
            LET existing == AttendanceRecordFindFirst(d, c.sessionId, c.actor, c.newest) IN
            Continue(d, [c EXCEPT !.existing = existing], "write")
      [] c.pc = "write" ->
            LET row == IF c.existing # 0 THEN c.existing
                       ELSE Len(d.AttendanceRecord[<<c.sessionId, c.actor>>]) + 1
                d1 == IF c.existing # 0
                      THEN AttendanceRecordUpdate(d, c.sessionId, c.actor, c.existing, c.status)
                      ELSE AttendanceRecordCreate(d, c.sessionId, c.actor, c.status)
            IN  Respond(d1, [c EXCEPT !.out = <<d1.AttendanceRecord[<<c.sessionId, c.actor>>][row]>>],
                        201)

\* POST /:studyId/sessions/:sessionId/attendance (recordAttendance)
RecordAttendanceStep(d, c) ==
    CASE c.pc = "ensureMember" ->
            IF c.status \notin AttendanceStatuses THEN Throw(d, c, 400, "INVALID_STATUS")
            ELSE IF ~ensureApprovedMember(d, c.studyId, c.actor)
                 THEN Throw(d, c, 403, "NOT_A_MEMBER")
            ELSE Continue(d, c, "findSession")
      [] c.pc = "findSession" ->
            LET session == AttendanceSessionFindUnique(d, c.sessionId) IN
            IF session = Null \/ session[1].studyId # c.studyId
            THEN Throw(d, c, 404, "SESSION_NOT_FOUND")
            ELSE Continue(d, c, "findExisting")
      [] c.pc = "findExisting" ->
            LET existing == AttendanceRecordFindFirst(d, c.sessionId, c.actor, c.newest) IN
            Continue(d, [c EXCEPT !.existing = existing], "write")
      [] c.pc = "write" ->
            LET row == IF c.existing # 0 THEN c.existing
                       ELSE Len(d.AttendanceRecord[<<c.sessionId, c.actor>>]) + 1
                d1 == IF c.existing # 0
                      THEN AttendanceRecordUpdate(d, c.sessionId, c.actor, c.existing, c.status)
                      ELSE AttendanceRecordCreate(d, c.sessionId, c.actor, c.status)
            IN  Respond(d1, [c EXCEPT !.out = <<d1.AttendanceRecord[<<c.sessionId, c.actor>>][row]>>],
                        201)

\* GET /:studyId/sessions (listSessions)
ListSessionsStep(d, c) ==
    CASE c.pc = "ensureMember" ->
            IF ~ensureApprovedMember(d, c.studyId, c.actor)
            THEN Throw(d, c, 403, "NOT_A_MEMBER")
            ELSE Continue(d, c, "findMany")
      [] c.pc = "findMany" ->
            Respond(d, [c EXCEPT !.out = <<SessionsOf(d, c.studyId)>>], 200)

\* where: { session: { studyId, date: { gte: from, lte: to } } }, each bound
\* present only when the query gave it
InRange(session, from, to) ==
    /\ from.kind = "date" => session.date >= from.d
    /\ to.kind = "date" => session.date <= to.d

SummaryKeys(d, s, from, to) ==
    {k \in SessionIds \X Users :
        /\ k[1] \in SessionsOf(d, s)
        /\ InRange(d.AttendanceSession[k[1]][1], from, to)}

\* GET /:studyId/attendance/summary with the date filter dropped
SummaryStepNoRange(d, c) ==
    CASE c.pc = "rbac" ->
            LET verdict == requireStudyLeader(d, c) IN
            IF verdict # "pass" THEN RbacThrow(d, c, verdict)
            ELSE IF c.from.kind = "invalid" THEN Throw(d, c, 400, "INVALID_DATE")
            ELSE IF c.to.kind = "invalid" THEN Throw(d, c, 400, "INVALID_DATE")
            ELSE Continue(d, Handler(c), "groupBy")
      [] c.pc = "groupBy" ->
            LET grouped == GroupByStatus(d, SummaryKeys(d, c.studyId, NoDate, NoDate)) IN
            Respond(d, [c EXCEPT !.out = <<Summarize(grouped)>>], 200)

\* GET /:studyId/attendance/summary (summary)
SummaryStep(d, c) ==
    CASE c.pc = "rbac" ->
            LET verdict == requireStudyLeader(d, c) IN
            IF verdict # "pass" THEN RbacThrow(d, c, verdict)
            ELSE IF c.from.kind = "invalid" THEN Throw(d, c, 400, "INVALID_DATE")
            ELSE IF c.to.kind = "invalid" THEN Throw(d, c, 400, "INVALID_DATE")
            ELSE Continue(d, Handler(c), "groupBy")
      [] c.pc = "groupBy" ->
            LET grouped == GroupByStatus(d, SummaryKeys(d, c.studyId, c.from, c.to)) IN
            Respond(d, [c EXCEPT !.out = <<Summarize(grouped)>>], 200)

\* the records of a session with the user each belongs to
RecordsOf(d, i) ==
    {<<u, d.AttendanceRecord[<<i, u>>]>> : u \in {v \in Users : d.AttendanceRecord[<<i, v>>] # << >>}}

\* GET /:studyId/sessions/:sessionId/attendance (listAttendance)
ListAttendanceStep(d, c) ==
    CASE c.pc = "rbac" ->
            LET verdict == requireStudyLeader(d, c) IN
            IF verdict # "pass" THEN RbacThrow(d, c, verdict)
            ELSE Continue(d, Handler(c), "findSession")
      [] c.pc = "findSession" ->
            LET session == AttendanceSessionFindUnique(d, c.sessionId) IN
            IF session = Null \/ session[1].studyId # c.studyId
            THEN Throw(d, c, 404, "SESSION_NOT_FOUND")
            ELSE Continue(d, c, "findMany")
      [] c.pc = "findMany" ->
            Respond(d, [c EXCEPT !.out = <<RecordsOf(d, c.sessionId)>>], 200)

\* GET /:sessionId/attendance of the sessions router
SessionAttendanceStep(d, c) ==
    CASE c.pc = "findSession" ->
            LET session == AttendanceSessionFindUnique(d, c.sessionId) IN
            IF session = Null THEN Throw(d, c, 404, "SESSION_NOT_FOUND")
            ELSE Continue(d, [c EXCEPT !.studyId = session[1].studyId], "findStudy")
      [] c.pc = "findStudy" ->
            LET study == StudyFindUnique(d, c.studyId) IN
            IF study = Null \/ study[1].leaderId # c.actor
            THEN Throw(d, c, 403, "FORBIDDEN")
            ELSE Continue(d, c, "findMany")
      [] c.pc = "findMany" ->
            Respond(d, [c EXCEPT !.out = <<RecordsOf(d, c.sessionId)>>], 200)

\* GET /:studyId/attendance/users/:userId (per-user summary); the response
\* is { studyId, userId, totalSessions, summary }
UserSummaryStep(d, c) ==
    CASE c.pc = "getStudy" ->
            LET study == StudyFindUnique(d, c.studyId) IN
            IF study = Null THEN Throw(d, c, 404, "STUDY_NOT_FOUND")
            ELSE Continue(d, [c EXCEPT !.study = study], "findMembership")
      [] c.pc = "findMembership" ->
            IF ~ensureApprovedMember(d, c.studyId, c.userId)
            THEN Throw(d, c, 404, "MEMBER_NOT_FOUND")
            ELSE IF c.actor # c.userId /\ c.study[1].leaderId # c.actor
                 THEN Throw(d, c, 403, "FORBIDDEN")
            ELSE Continue(d, c, "groupBy")
      [] c.pc = "groupBy" ->
            LET grouped == GroupByStatus(d, SessionsOf(d, c.studyId) \X {c.userId}) IN
            Continue(d, [c EXCEPT !.out = <<Summarize(grouped)>>], "count")
      [] c.pc = "count" ->
            LET totalSessions == Cardinality(SessionsOf(d, c.studyId)) IN
            Respond(d, [c EXCEPT !.out = <<[totalSessions |-> totalSessions,
                                           summary |-> c.out[1]]>>], 200)

\* DELETE /:studyId (deleteStudy)
DeleteStudyStep(d, c) ==
    CASE c.pc = "rbac" ->
            LET verdict == requireStudyLeader(d, c) IN
            IF verdict # "pass" THEN RbacThrow(d, c, verdict)
            ELSE Continue(d, Handler(c), "transaction")
      [] c.pc = "transaction" ->
            LET m == DeleteStudyTransaction(d, c.studyId) IN
            IF m.ok THEN Respond(m.db, c, 204) ELSE ThrowUnknown(d, c)

\* DELETE /:studyId/sessions/:sessionId (deleteSession)
DeleteSessionStep(d, c) ==
    CASE c.pc = "rbac" ->
            LET verdict == requireStudyLeader(d, c) IN
            IF verdict # "pass" THEN RbacThrow(d, c, verdict)
            ELSE Continue(d, Handler(c), "findSession")
      [] c.pc = "findSession" ->
            LET session == AttendanceSessionFindUnique(d, c.sessionId) IN
            IF session = Null \/ session[1].studyId # c.studyId
            THEN Throw(d, c, 404, "SESSION_NOT_FOUND")
            ELSE Continue(d, c, "delete")
      [] c.pc = "delete" ->
            LET m == AttendanceSessionDelete(d, c.sessionId) IN
            IF m.ok THEN Respond(m.db, c, 204) ELSE ThrowUnknown(d, c)

\* one store call of the handler the request is in
HandlerStep(d, c) ==
    CASE c.op = "createStudy" -> CreateStudyStep(d, c)
      [] c.op = "updateStudy" -> UpdateStudyStep(d, c)
      [] c.op = "join" -> JoinStep(d, c)
      [] c.op = "setMemberStatus" -> SetMemberStatusStep(d, c)
      [] c.op = "removeMember" -> RemoveMemberStep(d, c)
      [] c.op = "leave" -> LeaveStep(d, c)
      [] c.op = "createSession" -> CreateSessionStep(d, c)
      [] c.op = "recordAttendance" -> RecordAttendanceStep(d, c)
      [] c.op = "listSessions" -> ListSessionsStep(d, c)
      [] c.op = "summary" -> SummaryStep(d, c)
      [] c.op = "listAttendance" -> ListAttendanceStep(d, c)
      [] c.op = "sessionAttendance" -> SessionAttendanceStep(d, c)
      [] c.op = "userSummary" -> UserSummaryStep(d, c)
      [] c.op = "deleteStudy" -> DeleteStudyStep(d, c)
      [] c.op = "deleteSession" -> DeleteSessionStep(d, c)

\* a handler run to its response with no other request in between
RECURSIVE Run(_, _)
Run(d, c) ==
    LET r == HandlerStep(d, c) IN IF r.done THEN r ELSE Run(r.db, r.ctx)

\* the response of a finished handler, with the operation it answers
Log(r) == [op |-> r.ctx.op, http |-> r.http, code |-> r.code, body |-> r.ctx.out]

\* the contexts a request starts in
CreateStudyCtx(actor, body, fault) ==
    Ctx("createStudy", "tx", actor, 0, actor, "", body, fault)

UpdateStudyCtx(actor, s, body) ==
    Ctx("updateStudy", "rbac", actor, s, 0, "", body, FALSE)

JoinCtx(actor, s) == Ctx("join", "getStudy", actor, s, actor, "", NoBody, FALSE)

SetMemberStatusCtx(actor, s, u, status) ==
    Ctx("setMemberStatus", "rbac", actor, s, u, status, NoBody, FALSE)

RemoveMemberCtx(actor, s, u) ==
    Ctx("removeMember", "rbac", actor, s, u, "", NoBody, FALSE)

LeaveCtx(actor, s) ==
    Ctx("leave", "findMembership", actor, s, actor, "", NoBody, FALSE)

CreateSessionCtx(actor, s, body, date) ==
    [Ctx("createSession", "rbac", actor, s, 0, "", body, FALSE) EXCEPT !.date = date]

RecordAttendanceCtx(actor, s, i, status, newest) ==
    [Ctx("recordAttendance", "ensureMember", actor, s, actor, status, NoBody, FALSE)
        EXCEPT !.sessionId = i, !.newest = newest]

ListSessionsCtx(actor, s) ==
    Ctx("listSessions", "ensureMember", actor, s, actor, "", NoBody, FALSE)

SummaryCtx(actor, s, from, to) ==
    [Ctx("summary", "rbac", actor, s, 0, "", NoBody, FALSE) EXCEPT !.from = from, !.to = to]

ListAttendanceCtx(actor, s, i) ==
    [Ctx("listAttendance", "rbac", actor, s, 0, "", NoBody, FALSE) EXCEPT !.sessionId = i]

SessionAttendanceCtx(actor, i) ==
    [Ctx("sessionAttendance", "findSession", actor, 0, 0, "", NoBody, FALSE)
        EXCEPT !.sessionId = i]

DeleteStudyCtx(actor, s) ==
    Ctx("deleteStudy", "rbac", actor, s, 0, "", NoBody, FALSE)

DeleteSessionCtx(actor, s, i) ==
    [Ctx("deleteSession", "rbac", actor, s, 0, "", NoBody, FALSE) EXCEPT !.sessionId = i]

UserSummaryCtx(actor, s, u) ==
    Ctx("userSummary", "getStudy", actor, s, u, "", NoBody, FALSE)

\* ------------------------------------------------------------------ state
\* env.JWT_ACCESS_SECRET and env.JWT_REFRESH_SECRET of a deployment
DefaultEnv ==
    [JWT_ACCESS_SECRET |-> "secretA", JWT_REFRESH_SECRET |-> "secretB",
     REDIS_DISABLED |-> "true", NODE_ENV |-> "test"]

\* a call of redis.get/set/del/exists that has not been made
NoCall == [pc |-> "idle", op |-> "", key |-> "", impl |-> "null"]

\* config/redis after the module is loaded: redisImpl and initPromise are
\* null, both stores are empty; connects counts client.connect(), used and
\* written are the history of the operations performed
RedisModuleLoaded ==
    [redisImpl |-> "null", initPromise |-> "null", connects |-> 0,
     inMemoryRedis |-> {}, client |-> {},
     calls |-> [q \in Reqs |-> NoCall],
     used |-> {}, written |-> {}]


Init ==
    /\ Study = [s \in AllStudyIds |-> Null]
    /\ StudyMember = [k \in AllStudyIds \X Users |-> << >>]
    /\ nextStudyId = 1
    /\ AttendanceSession = [i \in SessionIds |-> Null]
    /\ AttendanceRecord = [k \in SessionIds \X Users |-> << >>]
    /\ nextSessionId = 1
    /\ nextRecordId = 1
    /\ reqs = [q \in Reqs |-> Idle]
    /\ last = [op |-> "none", http |-> 0, code |-> "", body |-> Null]
    /\ User = << >>
    /\ redisStore = [k \in RedisKeys |-> << >>]
    /\ issued = << >>
    /\ now = 0
    /\ env = DefaultEnv
    /\ redisModule = RedisModuleLoaded

SetDb(d) ==
    /\ Study' = d.Study
    /\ StudyMember' = d.StudyMember
    /\ nextStudyId' = d.nextStudyId
    /\ AttendanceSession' = d.AttendanceSession
    /\ AttendanceRecord' = d.AttendanceRecord
    /\ nextSessionId' = d.nextSessionId
    /\ nextRecordId' = d.nextRecordId
    /\ UNCHANGED <<User, redisStore, issued, now, env, redisModule>>

\* ------------------------------------------- non-overlapping requests
Handle(c) ==
    LET r == Run(db, c) IN
    /\ SetDb(r.db)
    /\ last' = Log(r)

CreateStudy(actor, body, fault) ==
    /\ nextStudyId <= MaxStudyId
    /\ Handle(CreateStudyCtx(actor, body, fault))
    /\ UNCHANGED reqs

UpdateStudy(actor, s, body) ==
    /\ Handle(UpdateStudyCtx(actor, s, body))
    /\ UNCHANGED reqs

Join(actor, s) ==
    /\ Handle(JoinCtx(actor, s))
    /\ UNCHANGED reqs

SetMemberStatus(actor, s, u, status) ==
    /\ Handle(SetMemberStatusCtx(actor, s, u, status))
    /\ UNCHANGED reqs

RemoveMember(actor, s, u) ==
    /\ Handle(RemoveMemberCtx(actor, s, u))
    /\ UNCHANGED reqs

Leave(actor, s) ==
    /\ Handle(LeaveCtx(actor, s))
    /\ UNCHANGED reqs

NextFixedCap ==
    \/ \E actor \in Users, body \in Bodies, fault \in BOOLEAN :
            CreateStudy(actor, body, fault)
    \/ \E actor \in Users, s \in StudyIds : Join(actor, s)
    \/ \E actor \in Users, s \in StudyIds, u \in Users, status \in StatusInputs :
            SetMemberStatus(actor, s, u, status)
    \/ \E actor \in Users, s \in StudyIds, u \in Users : RemoveMember(actor, s, u)
    \/ \E actor \in Users, s \in StudyIds : Leave(actor, s)

Next ==
    \/ NextFixedCap
    \/ \E actor \in Users, s \in StudyIds, body \in Bodies : UpdateStudy(actor, s, body)

\* every request of the membership workflow, one at a time
Spec == Init /\ [][Next]_vars

\* the same without updateStudy: a study keeps the maxMembers it was created with
SpecFixedCap == Init /\ [][NextFixedCap]_vars

\* ------------------------------------------------- attendance requests
CreateSession(actor, s, body, date) ==
    /\ nextSessionId <= MaxSessionId
    /\ Handle(CreateSessionCtx(actor, s, body, date))
    /\ UNCHANGED reqs

\* the record ids are a serial: requests are taken while it is within its bound
RecordAttendance(actor, s, i, status, newest) ==
    LET r == Run(db, RecordAttendanceCtx(actor, s, i, status, newest)) IN
    /\ r.db.nextRecordId <= MaxRecordId + 1
    /\ SetDb(r.db)
    /\ last' = Log(r)
    /\ UNCHANGED reqs

ListSessions(actor, s) ==
    /\ Handle(ListSessionsCtx(actor, s))
    /\ UNCHANGED reqs

Summary(actor, s, from, to) ==
    /\ Handle(SummaryCtx(actor, s, from, to))
    /\ UNCHANGED reqs

ListAttendance(actor, s, i) ==
    /\ Handle(ListAttendanceCtx(actor, s, i))
    /\ UNCHANGED reqs

SessionAttendance(actor, i) ==
    /\ Handle(SessionAttendanceCtx(actor, i))
    /\ UNCHANGED reqs

UserSummary(actor, s, u) ==
    /\ Handle(UserSummaryCtx(actor, s, u))
    /\ UNCHANGED reqs

Day1 == [kind |-> "date", d |-> 1]

\* createSession for a study that has no session yet
FirstSession(actor, s) ==
    /\ nextSessionId = 1
    /\ CreateSession(actor, s, TextBody, Day1)

\* Requests that do not overlap leave findFirst at most one row to return,
\* so the end it takes plays no part in them (newest = FALSE below).

\* the membership requests that lead to attendance: a study without
\* maxMembers, joins, and the leader's decisions
NextMembers ==
    \/ \E actor \in Users : CreateStudy(actor, TextBody, FALSE)
    \/ \E actor \in Users, s \in StudyIds : Join(actor, s)
    \/ \E actor \in Users, s \in StudyIds, u \in Users, status \in MemberStatuses :
            SetMemberStatus(actor, s, u, status)

\* SpecAtt follows the attendance of one session
NextAtt ==
    \/ NextMembers
    \/ \E actor \in Users, s \in StudyIds : FirstSession(actor, s)
    \/ \E actor \in Users, s \in StudyIds, i \in SessionIds,
           status \in AttendanceInputs :
            RecordAttendance(actor, s, i, status, FALSE)
    \/ \E actor \in Users, s \in StudyIds : ListSessions(actor, s)

\* sessions and attendance of approved members, one request at a time
SpecAtt == Init /\ [][NextAtt]_vars

\* membership that is also withdrawn (removeMember, leave), one session and
\* its attendance
NextLeave ==
    \/ NextMembers
    \/ \E actor \in Users, s \in StudyIds, u \in Users : RemoveMember(actor, s, u)
    \/ \E actor \in Users, s \in StudyIds : Leave(actor, s)
    \/ \E actor \in Users, s \in StudyIds : FirstSession(actor, s)
    \/ \E actor \in Users, s \in StudyIds, i \in SessionIds, status \in AttendanceStatuses :
            RecordAttendance(actor, s, i, status, FALSE)
    \/ \E actor \in Users, s \in StudyIds : ListSessions(actor, s)

SpecLeave == Init /\ [][NextLeave]_vars

\* --------------------------------------------------- overlapping requests
\* A request occupies a slot from its first store call to its response.
\* SpecC observes the store and the requests in flight; the response of a
\* request is what Spec records for the same handler.
Apply(q, r) ==
    /\ SetDb(r.db)
    /\ reqs' = [reqs EXCEPT ![q] = IF r.done THEN Idle ELSE r.ctx]
    /\ UNCHANGED last

\* slots are interchangeable: a new request takes the lowest free one
Free(q) == reqs[q] = Idle /\ \A p \in Reqs : p < q => reqs[p] # Idle

BeginCreateStudy(q, actor, body, fault) ==
    /\ Free(q)
    /\ nextStudyId <= MaxStudyId
    /\ Apply(q, HandlerStep(db, CreateStudyCtx(actor, body, fault)))

BeginJoin(q, actor, s) == Free(q) /\ Apply(q, HandlerStep(db, JoinCtx(actor, s)))

BeginSetMemberStatus(q, actor, s, u, status) ==
    Free(q) /\ Apply(q, HandlerStep(db, SetMemberStatusCtx(actor, s, u, status)))

BeginRemoveMember(q, actor, s, u) ==
    Free(q) /\ Apply(q, HandlerStep(db, RemoveMemberCtx(actor, s, u)))

BeginLeave(q, actor, s) == Free(q) /\ Apply(q, HandlerStep(db, LeaveCtx(actor, s)))

\* the next store call of the request in slot q
Resume(q) == reqs[q] # Idle /\ Apply(q, HandlerStep(db, reqs[q]))

NextC ==
    \E q \in Reqs :
        \/ \E actor \in Users, body \in Bodies, fault \in BOOLEAN :
                BeginCreateStudy(q, actor, body, fault)
        \/ \E actor \in Users, s \in StudyIds : BeginJoin(q, actor, s)
        \/ \E actor \in Users, s \in StudyIds, u \in Users, status \in StatusInputs :
                BeginSetMemberStatus(q, actor, s, u, status)
        \/ \E actor \in Users, s \in StudyIds, u \in Users :
                BeginRemoveMember(q, actor, s, u)
        \/ \E actor \in Users, s \in StudyIds : BeginLeave(q, actor, s)
        \/ Resume(q)

SpecC == Init /\ [][NextC]_vars

\* ------------------------------------------------- attendance summaries
\* createStudy for every id a request may name
OpenStudy(actor) ==
    /\ nextStudyId <= MaxStudyId + 1
    /\ Handle(CreateStudyCtx(actor, TextBody, FALSE))
    /\ UNCHANGED reqs

SessionDateInputs ==
    {d \in DateInputs : d.kind = "date" => d.d \in Dates}

\* query.from and query.to of the summary: absent or a date
RangeInputs == {d \in SessionDateInputs : d.kind # "invalid"}

\* the requests of the leader of study s
LeaderCreatesSession(s, body, date) ==
    /\ Study[s] # Null
    /\ CreateSession(Study[s][1].leaderId, s, body, date)

LeaderRecordsAttendance(s, i, status) ==
    /\ Study[s] # Null
    /\ RecordAttendance(Study[s][1].leaderId, s, i, status, FALSE)

LeaderAsksSummary(s, from, to) ==
    /\ Study[s] # Null
    /\ Summary(Study[s][1].leaderId, s, from, to)

\* studies of ordinary users, who open sessions, record their own attendance
\* and ask for the summary of a date range
NextSum ==
    \/ \E actor \in {u \in Users : UserRole[u] = "USER"} : OpenStudy(actor)
    \/ \E s \in AllStudyIds, body \in {TextBody, NoBody}, date \in SessionDateInputs :
            LeaderCreatesSession(s, body, date)
    \/ \E s \in AllStudyIds, i \in SessionIds, status \in AttendanceStatuses :
            LeaderRecordsAttendance(s, i, status)
    \/ \E s \in AllStudyIds, from \in RangeInputs, to \in RangeInputs :
            LeaderAsksSummary(s, from, to)

SpecSum == Init /\ [][NextSum]_vars

\* --------------------------------------------------------------- deletion
DeleteStudy(actor, s) ==
    /\ Handle(DeleteStudyCtx(actor, s))
    /\ UNCHANGED reqs

DeleteSession(actor, s, i) ==
    /\ Handle(DeleteSessionCtx(actor, s, i))
    /\ UNCHANGED reqs

\* studies with members, sessions and attendance, and their deletion
NextDel ==
    \/ \E actor \in {u \in Users : UserRole[u] = "USER"} : OpenStudy(actor)
    \/ \E actor \in Users, s \in AllStudyIds : Join(actor, s)
    \/ \E s \in AllStudyIds : LeaderCreatesSession(s, TextBody, Day1)
    \/ \E s \in AllStudyIds, i \in SessionIds : LeaderRecordsAttendance(s, i, "PRESENT")
    \/ \E actor \in Users, s \in AllStudyIds : DeleteStudy(actor, s)
    \/ \E actor \in Users, s \in AllStudyIds, i \in SessionIds : DeleteSession(actor, s, i)

SpecDel == Init /\ [][NextDel]_vars

\* ---------------------------------------------------- attendance views
\* membership, one session, attendance and the four read endpoints
NextView ==
    \/ NextMembers
    \/ \E actor \in Users, s \in StudyIds : FirstSession(actor, s)
    \/ \E actor \in Users, s \in StudyIds, i \in SessionIds, status \in AttendanceStatuses :
            RecordAttendance(actor, s, i, status, FALSE)
    \/ \E actor \in Users, s \in StudyIds : Summary(actor, s, NoDate, NoDate)
    \/ \E actor \in Users, s \in StudyIds, i \in SessionIds : ListAttendance(actor, s, i)
    \/ \E actor \in Users, i \in SessionIds : SessionAttendance(actor, i)
    \/ \E actor \in Users, s \in StudyIds, u \in Users : UserSummary(actor, s, u)

SpecView == Init /\ [][NextView]_vars

\* ----------------------------------------------------------- pagination
\* a request whose query carries page and size
PaginationCtx(pageParam, sizeParam) ==
    [Ctx("parsePagination", "", 0, 0, 0, "", NoBody, FALSE)
        EXCEPT !.page = pageParam, !.size = sizeParam]

\* request 1 carries any page and size; nothing else has happened
InitPage ==
    /\ \E pageParam \in ParamInputs(MaxPageInput), sizeParam \in ParamInputs(MaxSizeInput) :
            reqs = [q \in Reqs |-> IF q = 1 THEN PaginationCtx(pageParam, sizeParam) ELSE Idle]
    /\ Study = [s \in AllStudyIds |-> Null]
    /\ StudyMember = [k \in AllStudyIds \X Users |-> << >>]
    /\ nextStudyId = 1
    /\ AttendanceSession = [i \in SessionIds |-> << >>]
    /\ AttendanceRecord = [k \in SessionIds \X Users |-> << >>]
    /\ nextSessionId = 1
    /\ nextRecordId = 1
    /\ last = [op |-> "none", http |-> 0, code |-> "", body |-> Null]
    /\ User = << >>
    /\ redisStore = [k \in RedisKeys |-> << >>]
    /\ issued = << >>
    /\ now = 0
    /\ env = DefaultEnv
    /\ redisModule = RedisModuleLoaded

\* the call parsePagination(page, size) of request 1
ParsePagination ==
    /\ last' = [op |-> "parsePagination", http |-> 0, code |-> "",
                body |-> <<parsePagination(reqs[1].page, reqs[1].size)>>]
    /\ UNCHANGED <<Study, StudyMember, nextStudyId, AttendanceSession, AttendanceRecord,
                   nextSessionId, nextRecordId, reqs, User, redisStore, issued, now, env, redisModule>>

NextPage == ParsePagination

SpecPage == InitPage /\ [][NextPage]_vars

\* ------------------------------------------------------- authentication
\* The User table, the fast store, the clock and the token pairs handed to
\* clients.  A row of issued is what pair k was signed with (sub, iat) and
\* what its holder has been answered: rotated (a refresh with its refresh
\* token succeeded), refreshOut and accessOut (a logout that carried its
\* refresh token, its access token, succeeded).
auth == [User |-> User, redisStore |-> redisStore, issued |-> issued, now |-> now]

SetAuth(a) ==
    /\ User' = a.User
    /\ redisStore' = a.redisStore
    /\ issued' = a.issued
    /\ now' = a.now
    /\ UNCHANGED <<Study, StudyMember, nextStudyId, AttendanceSession, AttendanceRecord,
                   nextSessionId, nextRecordId, reqs, env, redisModule>>

\* toLowerCase left out
KeepCase(email) == email

\* String.prototype.toLowerCase
ToLowerCase(email) ==
    [n \in DOMAIN email |-> IF email[n] = "A" THEN "a" ELSE email[n]]

\* prisma.user.findUnique({ where: { email } }): the id of the row, 0 for null
UserFindUnique(a, email) ==
    IF \E id \in DOMAIN a.User : a.User[id].email = email
    THEN CHOOSE id \in DOMAIN a.User : a.User[id].email = email
    ELSE 0

\* prisma.user.create({ data: { email, ... } })
UserCreate(a, email) == [a EXCEPT !.User = Append(@, [email |-> email])]

\* a store that drops what it is given
RedisSetLost(a, key, ex) == a

\* a store whose entries expire one tick early
RedisSetShort(a, key, ex) == [a EXCEPT !.redisStore[key] = <<[expiresAt |-> a.now + ex - 1]>>]

\* store.set(key, value, { EX }): expiresAt = Date.now() + EX
RedisSet(a, key, ex) == [a EXCEPT !.redisStore[key] = <<[expiresAt |-> a.now + ex]>>]

\* isExpired(entry)
IsExpired(a, key) == a.redisStore[key][1].expiresAt <= a.now

\* a store that finds no key
RedisExistsNever(a, key) == FALSE

\* store.exists(key): an expired entry is deleted and reported as missing
RedisExists(a, key) == a.redisStore[key] # << >> /\ ~IsExpired(a, key)

RedisPurge(a, key) ==
    IF a.redisStore[key] # << >> /\ IsExpired(a, key)
    THEN [a EXCEPT !.redisStore[key] = << >>]
    ELSE a

\* the exp claim of the tokens of pair k
AccessExp(a, k) == a.issued[k].iat + AccessTtl

RefreshExp(a, k) == a.issued[k].iat + RefreshTtl

\* jwt.verify: a token that was never signed, or whose exp has been reached,
\* is refused
AccessVerifies(a, k) == k \in DOMAIN a.issued /\ a.now < AccessExp(a, k)

RefreshVerifies(a, k) == k \in DOMAIN a.issued /\ a.now < RefreshExp(a, k)

\* signAccessToken and signRefreshToken for user sub: a new pair
IssueTokens(a, sub) ==
    [a EXCEPT !.issued = Append(@, [sub |-> sub, iat |-> a.now, rotated |-> FALSE,
                                    refreshOut |-> FALSE, accessOut |-> FALSE])]

\* the outcome of a handler: the state it leaves, the status and the code
\* of the response, and its body
Answer(a, http, code, out) == [auth |-> a, http |-> http, code |-> code, out |-> out]

\* POST /auth/register -> registerUser(email, password, name)
registerUser(a, email) ==
    IF email = << >> THEN Answer(a, 400, "INVALID_PAYLOAD", Null)
    ELSE IF UserFindUnique(a, ToLowerCase(email)) # 0 THEN Answer(a, 409, "EMAIL_TAKEN", Null)
    ELSE LET created == UserCreate(a, ToLowerCase(email)) IN
         Answer(IssueTokens(created, Len(created.User)), 201, "OK", <<Len(a.issued) + 1>>)

\* POST /auth/login -> loginUser(email, password); matches says whether the
\* password is the user's
loginUser(a, email, matches) ==
    IF email = << >> THEN Answer(a, 400, "INVALID_PAYLOAD", Null)
    ELSE LET id == UserFindUnique(a, ToLowerCase(email)) IN
         IF id = 0 \/ ~matches THEN Answer(a, 401, "INVALID_CREDENTIALS", Null)
         ELSE Answer(IssueTokens(a, id), 200, "OK", <<Len(a.issued) + 1>>)

\* POST /auth/google -> loginWithGoogle(idToken); email is payload.email
loginWithGoogle(a, email) ==
    IF email = << >> THEN Answer(a, 400, "INVALID_PAYLOAD", Null)
    ELSE LET id == UserFindUnique(a, ToLowerCase(email))
             created == IF id = 0 THEN UserCreate(a, ToLowerCase(email)) ELSE a
             sub == IF id = 0 THEN Len(created.User) ELSE id
         IN  Answer(IssueTokens(created, sub), 200, "OK", <<Len(a.issued) + 1>>)

\* POST /auth/refresh -> refreshTokens(refreshToken); k = 0 is an absent token
refreshTokens(a, k) ==
    IF k = 0 THEN Answer(a, 400, "INVALID_PAYLOAD", Null)
    ELSE IF ~RefreshVerifies(a, k) THEN Answer(a, 401, "INVALID_TOKEN", Null)
    ELSE LET key == <<"refresh", k>> IN
         IF RedisExists(a, key) THEN Answer(a, 401, "TOKEN_REVOKED", Null)
         ELSE LET revoked == RedisSet(a, key, RefreshExp(a, k) - a.now) IN
              Answer(IssueTokens(revoked, a.issued[k].sub), 200, "OK", <<Len(a.issued) + 1>>)

\* POST /auth/logout -> logoutUser(refreshToken, accessToken); acc = 0 is a
\* request without a bearer token
logoutUser(a, r, acc) ==
    IF r = 0 THEN Answer(a, 400, "INVALID_PAYLOAD", Null)
    ELSE IF ~RefreshVerifies(a, r) THEN Answer(a, 401, "INVALID_TOKEN", Null)
    ELSE LET first == RedisSet(a, <<"refresh", r>>, RefreshExp(a, r) - a.now)
             second == IF acc # 0 /\ AccessVerifies(a, acc)
                       THEN RedisSet(first, <<"access", acc>>, AccessExp(a, acc) - a.now)
                       ELSE first
         IN  Answer(second, 200, "OK", Null)

\* authenticate, in front of GET /users/me; k = 0 is a request without a
\* bearer token
authenticate(a, k) ==
    IF k = 0 THEN Answer(a, 401, "UNAUTHORIZED", Null)
    ELSE IF ~AccessVerifies(a, k) THEN Answer(a, 401, "INVALID_TOKEN", Null)
    ELSE IF RedisExists(a, <<"access", k>>) THEN Answer(a, 401, "TOKEN_REVOKED", Null)
    ELSE Answer(RedisPurge(a, <<"access", k>>), 200, "OK", <<a.issued[k].sub>>)

\* the response r of a request to the auth router, or of one behind
\* authenticate, and the state the handler leaves
Answered(op, r) ==
    /\ SetAuth(r.auth)
    /\ last' = [op |-> op, http |-> r.http, code |-> r.code, body |-> r.out]

Register(email) ==
    LET r == registerUser(auth, email) IN
    /\ Len(r.auth.issued) <= MaxPairs
    /\ Answered("register", r)

Login(email, matches) ==
    LET r == loginUser(auth, email, matches) IN
    /\ Len(r.auth.issued) <= MaxPairs
    /\ Answered("login", r)

Google(email) ==
    LET r == loginWithGoogle(auth, email) IN
    /\ Len(r.auth.issued) <= MaxPairs
    /\ Answered("google", r)

\* what the holder of pair k has been answered
Noted(r, k, field) ==
    IF r.http = 200 /\ k \in DOMAIN r.auth.issued
    THEN [r EXCEPT !.auth.issued[k] = [@ EXCEPT ![field] = TRUE]]
    ELSE r

Refresh(k) ==
    LET r == Noted(refreshTokens(auth, k), k, "rotated") IN
    /\ Len(r.auth.issued) <= MaxPairs
    /\ Answered("refresh", r)

Logout(r, acc) ==
    /\ r = 0 => acc = 0
    /\ Answered("logout", Noted(Noted(logoutUser(auth, r, acc), r, "refreshOut"),
                                acc, "accessOut"))

Me(k) ==
    /\ k <= Len(issued)
    /\ Answered("me", authenticate(auth, k))

\* time passes
Tick ==
    /\ now < MaxTime
    /\ now' = now + 1
    /\ UNCHANGED <<Study, StudyMember, nextStudyId, AttendanceSession, AttendanceRecord,
                   nextSessionId, nextRecordId, reqs, last, User, redisStore, issued, env, redisModule>>

\* the token a request carries: none (0), or one of a pair that was or
\* could have been signed
TokenInputs == 0..MaxPairs

NextAuth ==
    \/ \E email \in EmailInputs : Register(email)
    \/ \E email \in EmailInputs, matches \in BOOLEAN : Login(email, matches)
    \/ \E email \in EmailInputs : Google(email)
    \/ \E k \in TokenInputs : Refresh(k)
    \/ \E r \in TokenInputs, acc \in TokenInputs : Logout(r, acc)
    \/ \E k \in TokenInputs : Me(k)
    \/ Tick

SpecAuth == Init /\ [][NextAuth]_vars

\* ------------------------------------------------- overlapping refreshes
\* POST /auth/refresh with the refresh token of pair k, before its first
\* call of the fast store
RefreshCtx(k) == [Ctx("refresh", "exists", 0, 0, 0, "", NoBody, FALSE) EXCEPT !.token = k]

\* refreshTokens(refreshToken) up to its next call of the fast store: the
\* token is verified and looked up in the blacklist; then it is blacklisted
\* and the new pair is signed
refreshTokensStep(a, c) ==
    CASE c.pc = "exists" ->
            IF ~RefreshVerifies(a, c.token)
            THEN [auth |-> a, ctx |-> c, done |-> TRUE, http |-> 401, code |-> "INVALID_TOKEN"]
            ELSE IF RedisExists(a, <<"refresh", c.token>>)
            THEN [auth |-> a, ctx |-> c, done |-> TRUE, http |-> 401, code |-> "TOKEN_REVOKED"]
            ELSE [auth |-> a, ctx |-> [c EXCEPT !.pc = "set"], done |-> FALSE,
                  http |-> 0, code |-> ""]
      [] c.pc = "set" ->
            LET revoked == RedisSet(a, <<"refresh", c.token>>, RefreshExp(a, c.token) - a.now) IN
            [auth |-> IssueTokens(revoked, a.issued[c.token].sub),
             ctx |-> [c EXCEPT !.out = <<Len(a.issued) + 1>>], done |-> TRUE,
             http |-> 200, code |-> "OK"]

\* the state a step of a refresh leaves, and its response once it is done
AppliedRefresh(q, r) ==
    /\ User' = r.auth.User
    /\ redisStore' = r.auth.redisStore
    /\ issued' = r.auth.issued
    /\ now' = r.auth.now
    /\ reqs' = [reqs EXCEPT ![q] = IF r.done THEN Idle ELSE r.ctx]
    /\ last' = IF r.done
               THEN [op |-> "refresh", http |-> r.http, code |-> r.code, body |-> r.ctx.out]
               ELSE last
    /\ UNCHANGED <<Study, StudyMember, nextStudyId, AttendanceSession, AttendanceRecord,
                   nextSessionId, nextRecordId, env, redisModule>>

BeginRefresh(q, k) ==
    /\ Free(q)
    /\ AppliedRefresh(q, refreshTokensStep(auth, RefreshCtx(k)))

ResumeRefresh(q) ==
    /\ reqs[q] # Idle
    /\ Len(issued) < MaxPairs
    /\ AppliedRefresh(q, Noted(refreshTokensStep(auth, reqs[q]), reqs[q].token, "rotated"))

\* registrations, and refreshes that overlap
NextAuthC ==
    \/ \E email \in EmailInputs : Register(email)
    \/ \E q \in Reqs, k \in PairIds : BeginRefresh(q, k)
    \/ \E q \in Reqs : ResumeRefresh(q)
    \/ Tick

SpecAuthC == Init /\ [][NextAuthC]_vars

\* ------------------------------------------------------------------ utils/jwt
\* a JavaScript value of a token claim: a number, a string (s names the text;
\* "uuid" with n is the n-th UUID, "digits" with n the decimal text of n) or
\* undefined
Num(n) == [kind |-> "number", n |-> n, s |-> ""]
Str(s) == [kind |-> "string", n |-> 0, s |-> s]
Uuid(n) == [kind |-> "string", n |-> n, s |-> "uuid"]
Digits(n) == [kind |-> "string", n |-> n, s |-> "digits"]
Undefined == [kind |-> "undefined", n |-> 0, s |-> ""]

\* typeof v
TypeOf(v) == v.kind

\* Number(v)
Number(v) ==
    CASE v.kind = "number" -> [nan |-> FALSE, n |-> v.n]
      [] v.kind = "string" /\ v.s = "digits" -> [nan |-> FALSE, n |-> v.n]
      [] v.kind = "string" /\ v.s = "" -> [nan |-> FALSE, n |-> 0]
      [] OTHER -> [nan |-> TRUE, n |-> 0]

\* !v
Falsy(v) == v.kind = "undefined" \/ v = Str("") \/ v = Num(0)

\* randomUUID(): a value that none of the drawn earlier calls returned
randomUUID(drawn) == Uuid(drawn + 1)

\* the subject { id, role } of the tokens of user u
TokenSubject(u) == [id |-> u, role |-> UserRole[u]]

\* jwt.sign(payload, secret, { expiresIn }) at time t
JwtSign(payload, secret, expiresIn, t) ==
    [kind |-> "jwt",
     payload |-> [payload EXCEPT !.iat = Num(t), !.exp = Num(t + expiresIn)],
     key |-> secret]

signAccessToken(e, user, t, drawn) ==
    JwtSign([sub |-> Num(user.id), role |-> Str(user.role), type |-> Str("access"),
             sessionId |-> Undefined, jti |-> randomUUID(drawn),
             iat |-> Undefined, exp |-> Undefined],
            e.JWT_ACCESS_SECRET, AccessTtl, t)

\* signRefreshToken with a payload that has no sessionId
signRefreshTokenNoSession(e, user, sessionId, t) ==
    [token |-> JwtSign([sub |-> Num(user.id), role |-> Str(user.role), type |-> Str("refresh"),
                        sessionId |-> Undefined, jti |-> Undefined,
                        iat |-> Undefined, exp |-> Undefined],
                       e.JWT_REFRESH_SECRET, RefreshTtl, t),
     sessionId |-> sessionId]

signRefreshToken(e, user, sessionId, t) ==
    [token |-> JwtSign([sub |-> Num(user.id), role |-> Str(user.role), type |-> Str("refresh"),
                        sessionId |-> sessionId, jti |-> Undefined,
                        iat |-> Undefined, exp |-> Undefined],
                       e.JWT_REFRESH_SECRET, RefreshTtl, t),
     sessionId |-> sessionId]

\* what a call returns or throws
Returned(payload) == [thrown |-> FALSE, http |-> 0, code |-> "", payload |-> <<payload>>]

Thrown(http, code) == [thrown |-> TRUE, http |-> http, code |-> code, payload |-> << >>]

\* jwt.verify(token, secret) at time t: throws on text that is no token, on a
\* signature of another key and on exp <= t; returns the payload, which is a
\* string when a string was signed
JwtVerify(token, secret, t) ==
    IF token.kind = "garbage" THEN Thrown(0, "JsonWebTokenError")
    ELSE IF token.key # secret THEN Thrown(0, "JsonWebTokenError")
    ELSE IF token.kind = "text" THEN Returned(Str("text"))
    ELSE IF token.payload.exp.kind = "number" /\ t >= token.payload.exp.n
    THEN Thrown(0, "TokenExpiredError")
    ELSE Returned(token.payload)

normalizePayload(payload) ==
    LET userId == Number(payload.sub) IN
    IF userId.nan THEN Thrown(401, "INVALID_TOKEN")
    ELSE IF TypeOf(payload.role) # "string" THEN Thrown(401, "INVALID_TOKEN")
    ELSE IF TypeOf(payload.type) # "string" THEN Thrown(401, "INVALID_TOKEN")
    ELSE Returned([payload EXCEPT !.sub = Num(userId.n)])

\* verifyToken without the catch: the error of jwt.verify escapes as it is
verifyTokenNoCatch(token, secret, t) ==
    LET decoded == JwtVerify(token, secret, t) IN
    IF decoded.thrown THEN decoded
    ELSE IF decoded.payload[1] = Str("text") THEN Thrown(0, "Error")
    ELSE normalizePayload(decoded.payload[1])

verifyToken(token, secret, t) ==
    LET decoded == JwtVerify(token, secret, t) IN
    IF decoded.thrown THEN Thrown(401, "INVALID_TOKEN")
    ELSE IF decoded.payload[1] = Str("text") THEN Thrown(401, "INVALID_TOKEN")
    ELSE LET normal == normalizePayload(decoded.payload[1]) IN
         IF normal.thrown THEN Thrown(401, "INVALID_TOKEN") ELSE normal

\* verifyAccessToken without the test of the type claim
verifyAccessTokenAnyType(e, token, t) ==
    verifyToken(token, e.JWT_ACCESS_SECRET, t)

verifyAccessToken(e, token, t) ==
    LET payload == verifyToken(token, e.JWT_ACCESS_SECRET, t) IN
    IF payload.thrown THEN payload
    ELSE IF payload.payload[1].type # Str("access") THEN Thrown(401, "INVALID_TOKEN")
    ELSE payload

verifyRefreshToken(e, token, t) ==
    LET payload == verifyToken(token, e.JWT_REFRESH_SECRET, t) IN
    IF payload.thrown THEN payload
    ELSE IF payload.payload[1].type # Str("refresh") \/ Falsy(payload.payload[1].sessionId)
    THEN Thrown(401, "INVALID_TOKEN")
    ELSE payload

\* the deployments: two secrets, or one secret for both kinds of token
EnvInputs == {DefaultEnv, [DefaultEnv EXCEPT !.JWT_REFRESH_SECRET = "secretA"]}

\* the pairs minted in one run
MaxMinted == 2

\* tokens nobody minted here: one claim missing or of another type, a
\* foreign key, a signed string, text that is no token
ForgedBase(type) ==
    [sub |-> Num(1), role |-> Str("USER"), type |-> Str(type), sessionId |-> Uuid(1),
     jti |-> Undefined, iat |-> Num(0), exp |-> Num(1)]

ForgedPayloads ==
    UNION {{ForgedBase(type),
            [ForgedBase(type) EXCEPT !.sub = Digits(2)],
            [ForgedBase(type) EXCEPT !.sub = Str("abc")],
            [ForgedBase(type) EXCEPT !.sub = Undefined],
            [ForgedBase(type) EXCEPT !.role = Undefined],
            [ForgedBase(type) EXCEPT !.role = Num(1)],
            [ForgedBase(type) EXCEPT !.type = Undefined],
            [ForgedBase(type) EXCEPT !.sessionId = Undefined],
            [ForgedBase(type) EXCEPT !.sessionId = Str("")]} : type \in {"access", "refresh"}}

ForgedTokens ==
    [kind : {"jwt"}, payload : ForgedPayloads, key : {"secretA", "secretB", "forged"}]
    \cup [kind : {"text", "garbage"},
          payload : {[sub |-> Undefined, role |-> Undefined, type |-> Undefined,
                      sessionId |-> Undefined, jti |-> Undefined,
                      iat |-> Undefined, exp |-> Undefined]},
          key : {"secretA", "secretB"}]

\* a deployment with its secrets; nothing has been minted
InitJwt ==
    /\ env \in EnvInputs
    /\ redisModule = RedisModuleLoaded
    /\ Study = [s \in AllStudyIds |-> Null]
    /\ StudyMember = [k \in AllStudyIds \X Users |-> << >>]
    /\ nextStudyId = 1
    /\ AttendanceSession = [i \in SessionIds |-> << >>]
    /\ AttendanceRecord = [k \in SessionIds \X Users |-> << >>]
    /\ nextSessionId = 1
    /\ nextRecordId = 1
    /\ reqs = [q \in Reqs |-> Idle]
    /\ last = [op |-> "none", http |-> 0, code |-> "", body |-> Null]
    /\ User = << >>
    /\ redisStore = [k \in RedisKeys |-> << >>]
    /\ issued = << >>
    /\ now = 0

\* the answer of a verification of token at the present time
Verified(op, token, r) ==
    /\ last' = [op |-> op, http |-> r.http, code |-> r.code,
                body |-> [token |-> token, at |-> now, thrown |-> r.thrown, payload |-> r.payload]]
    /\ UNCHANGED <<Study, StudyMember, nextStudyId, AttendanceSession, AttendanceRecord,
                   nextSessionId, nextRecordId, reqs, User, redisStore, issued, now, env, redisModule>>

\* signAccessToken(user) and signRefreshToken(user) for user u; each draws
\* one UUID
MintPair(u) ==
    /\ Len(issued) < MaxMinted
    /\ LET user == TokenSubject(u)
           access == signAccessToken(env, user, now, 2 * Len(issued))
           refresh == signRefreshToken(env, user, randomUUID(2 * Len(issued) + 1), now)
       IN  issued' = Append(issued, [user |-> user, access |-> access,
                                     refresh |-> refresh.token, sessionId |-> refresh.sessionId])
    /\ last' = [op |-> "mint", http |-> 0, code |-> "", body |-> Null]
    /\ UNCHANGED <<Study, StudyMember, nextStudyId, AttendanceSession, AttendanceRecord,
                   nextSessionId, nextRecordId, reqs, User, redisStore, now, env, redisModule>>

\* the tokens minted so far
Minted == {issued[k].access : k \in DOMAIN issued} \cup {issued[k].refresh : k \in DOMAIN issued}

\* verifyAccessToken(token) and verifyRefreshToken(token) of a forged token
VerifyAccess(token) ==
    /\ Verified("verifyAccessToken", token, verifyAccessToken(env, token, now))

VerifyRefresh(token) ==
    /\ Verified("verifyRefreshToken", token, verifyRefreshToken(env, token, now))

\* the access or the refresh token of the k-th minted pair
TokenOf(k, which) == IF which = "access" THEN issued[k].access ELSE issued[k].refresh

\* verifyAccessToken and verifyRefreshToken of a minted token
VerifyAccessOf(k, which) ==
    /\ k <= Len(issued)
    /\ Verified("verifyAccessToken", TokenOf(k, which),
                verifyAccessToken(env, TokenOf(k, which), now))

VerifyRefreshOf(k, which) ==
    /\ k <= Len(issued)
    /\ Verified("verifyRefreshToken", TokenOf(k, which),
                verifyRefreshToken(env, TokenOf(k, which), now))

NextJwt ==
    \/ \E u \in Users : MintPair(u)
    \/ \E token \in ForgedTokens : VerifyAccess(token)
    \/ \E token \in ForgedTokens : VerifyRefresh(token)
    \/ \E k \in 1..MaxMinted, which \in {"access", "refresh"} : VerifyAccessOf(k, which)
    \/ \E k \in 1..MaxMinted, which \in {"access", "refresh"} : VerifyRefreshOf(k, which)
    \/ Tick

SpecJwt == InitJwt /\ [][NextJwt]_vars

\* -------------------------------------------------------------- config/redis
RedisOps == {"get", "set", "del", "exists"}

RedisCallKeys == {"k1", "k2"}

\* the deployments: REDIS_DISABLED set or not, production or not
RedisEnvInputs ==
    {[DefaultEnv EXCEPT !.REDIS_DISABLED = d, !.NODE_ENV = n] :
        d \in {"true", "false"}, n \in {"production", "test"}}

\* initRedis() up to its return or to await client.connect()
initRedis(e, m) ==
    IF m.redisImpl # "null" THEN [m EXCEPT !.initPromise = "resolved"]
    ELSE IF e.REDIS_DISABLED = "true"
    THEN [m EXCEPT !.redisImpl = "inMemoryRedis", !.initPromise = "resolved"]
    ELSE [m EXCEPT !.connects = @ + 1, !.initPromise = "pending"]

\* initRedis() after client.connect() has resolved (ok) or rejected
initRedisConnected(e, m, ok) ==
    IF ok THEN [m EXCEPT !.redisImpl = "client", !.initPromise = "resolved"]
    ELSE IF e.NODE_ENV # "production"
    THEN [m EXCEPT !.redisImpl = "inMemoryRedis", !.initPromise = "resolved"]
    ELSE [m EXCEPT !.initPromise = "rejected"]

\* getRedisImpl() of call q up to its return or to await initPromise, with
\* initRedis() called whenever redisImpl is null
getRedisImplNoMemo(e, m, q) ==
    IF m.redisImpl # "null"
    THEN [m EXCEPT !.calls[q].pc = "op", !.calls[q].impl = m.redisImpl]
    ELSE [initRedis(e, m) EXCEPT !.calls[q].pc = "await"]

\* getRedisImpl() of call q up to its return or to await initPromise
getRedisImpl(e, m, q) ==
    IF m.redisImpl # "null"
    THEN [m EXCEPT !.calls[q].pc = "op", !.calls[q].impl = m.redisImpl]
    ELSE [(IF m.initPromise = "null" THEN initRedis(e, m) ELSE m)
            EXCEPT !.calls[q].pc = "await"]

\* getRedisImpl() of call q after await initPromise: redisImpl ?? inMemoryRedis,
\* or the rejection of initRedis
getRedisImplAwaited(m, q) ==
    IF m.initPromise = "rejected" THEN [m EXCEPT !.calls[q] = NoCall]
    ELSE [m EXCEPT !.calls[q].pc = "op",
                   !.calls[q].impl = IF m.redisImpl = "null" THEN "inMemoryRedis"
                                     ELSE m.redisImpl]

\* the keys held by implementation impl
RedisKeysOf(m, impl) == IF impl = "client" THEN m.client ELSE m.inMemoryRedis

\* impl.get / set / del / exists (key): the value returned
RedisResult(m, impl, op, key) ==
    CASE op = "set" -> "OK"
      [] op = "get" -> IF key \in RedisKeysOf(m, impl) THEN "value" ELSE "null"
      [] OTHER -> IF key \in RedisKeysOf(m, impl) THEN "1" ELSE "0"

\* impl.get / set / del / exists (key): the keys held afterwards
RedisEffect(m, impl, op, key) ==
    LET keys == CASE op = "set" -> RedisKeysOf(m, impl) \cup {key}
                  [] op = "del" -> RedisKeysOf(m, impl) \ {key}
                  [] OTHER -> RedisKeysOf(m, impl)
    IN  IF impl = "client" THEN [m EXCEPT !.client = keys]
        ELSE [m EXCEPT !.inMemoryRedis = keys]

\* a process of a deployment that has loaded config/redis
InitRedis ==
    /\ env \in RedisEnvInputs
    /\ redisModule = RedisModuleLoaded
    /\ Study = [s \in AllStudyIds |-> Null]
    /\ StudyMember = [k \in AllStudyIds \X Users |-> << >>]
    /\ nextStudyId = 1
    /\ AttendanceSession = [i \in SessionIds |-> << >>]
    /\ AttendanceRecord = [k \in SessionIds \X Users |-> << >>]
    /\ nextSessionId = 1
    /\ nextRecordId = 1
    /\ reqs = [q \in Reqs |-> Idle]
    /\ last = [op |-> "none", http |-> 0, code |-> "", body |-> Null]
    /\ User = << >>
    /\ redisStore = [k \in RedisKeys |-> << >>]
    /\ issued = << >>
    /\ now = 0

RedisKeep ==
    UNCHANGED <<Study, StudyMember, nextStudyId, AttendanceSession, AttendanceRecord,
                nextSessionId, nextRecordId, reqs, User, redisStore, issued, now, env>>

\* redis.get/set/del/exists(key) is called and runs to its first await
RedisCall(q, op, key) ==
    /\ redisModule.calls[q].pc = "idle"
    /\ redisModule' = getRedisImpl(env,
            [redisModule EXCEPT !.calls[q] = [NoCall EXCEPT !.op = op, !.key = key]], q)
    /\ last' = [op |-> "call", http |-> 0, code |-> "", body |-> Null]
    /\ RedisKeep

\* client.connect() resolves or rejects
ConnectSettles(ok) ==
    /\ redisModule.initPromise = "pending"
    /\ redisModule' = initRedisConnected(env, redisModule, ok)
    /\ last' = [op |-> "connect", http |-> 0, code |-> "", body |-> Null]
    /\ RedisKeep

\* a call waiting for initPromise goes on once the promise is settled
RedisResume(q) ==
    /\ redisModule.calls[q].pc = "await"
    /\ redisModule.initPromise \in {"resolved", "rejected"}
    /\ redisModule' = getRedisImplAwaited(redisModule, q)
    /\ last' = [op |-> "resume", http |-> 0,
                code |-> IF redisModule.initPromise = "rejected" THEN "rejected" ELSE "",
                body |-> Null]
    /\ RedisKeep

\* impl.get/set/del/exists(key) of a call that holds its implementation
RedisPerform(q) ==
    /\ redisModule.calls[q].pc = "op"
    /\ LET c == redisModule.calls[q]
           m == RedisEffect(redisModule, c.impl, c.op, c.key)
       IN  /\ redisModule' =
                [m EXCEPT !.calls[q] = NoCall,
                          !.used = @ \cup {c.impl},
                          !.written = CASE c.op = "set" -> @ \cup {c.key}
                                        [] c.op = "del" -> @ \ {c.key}
                                        [] OTHER -> @]
           /\ last' = [op |-> c.op, http |-> 0, code |-> "",
                       body |-> [key |-> c.key, impl |-> c.impl,
                                 result |-> RedisResult(redisModule, c.impl, c.op, c.key)]]
    /\ RedisKeep

NextRedis ==
    \/ \E q \in Reqs, op \in RedisOps, key \in RedisCallKeys : RedisCall(q, op, key)
    \/ \E ok \in BOOLEAN : ConnectSettles(ok)
    \/ \E q \in Reqs : RedisResume(q)
    \/ \E q \in Reqs : RedisPerform(q)

SpecRedis == InitRedis /\ [][NextRedis]_vars

\* ------------------------------------------ overlapping attendance requests
\* recordAttendance requests overlap each other.  The callers are study
\* leaders, whose membership is APPROVED from createStudy on; createStudy and
\* createSession run to their response between two store calls.
BeginRecordAttendance(q, actor, s, i, status, newest) ==
    /\ Free(q)
    /\ Apply(q, HandlerStep(db, RecordAttendanceCtx(actor, s, i, status, newest)))

\* the next store call of the recordAttendance request in slot q, while the
\* record ids are within their bound
ResumeAttendance(q) ==
    /\ reqs[q] # Idle
    /\ HandlerStep(db, reqs[q]).db.nextRecordId <= MaxRecordId + 1
    /\ Apply(q, HandlerStep(db, reqs[q]))

NextAttC ==
    \/ \E actor \in Users : CreateStudy(actor, TextBody, FALSE)
    \/ \E actor \in Users, s \in StudyIds : FirstSession(actor, s)
    \/ \E q \in Reqs :
        \/ \E actor \in Users, s \in StudyIds, i \in SessionIds,
               status \in AttendanceInputs, newest \in BOOLEAN :
                BeginRecordAttendance(q, actor, s, i, status, newest)
        \/ ResumeAttendance(q)

SpecAttC == Init /\ [][NextAttC]_vars

\* ------------------------------------------------------------- properties
Row(s, u) == StudyMember[<<s, u>>]

LeaderRow == [memberRole |-> "LEADER", status |-> "APPROVED"]

PendingRow == [memberRole |-> "MEMBER", status |-> "PENDING"]

IsLeaderRow(s, u) == Row(s, u) # << >> /\ Row(s, u)[1].memberRole = "LEADER"

HasStatus(s, u, statuses) == Row(s, u) # << >> /\ Row(s, u)[1].status \in statuses

\* the caller passes requireStudyLeader for study s
MayManage(actor, s) ==
    requireStudyLeader(db, SetMemberStatusCtx(actor, s, actor, "")) = "pass"

Declares(s) == Study[s] # Null /\ Study[s][1].maxMembers # Null

Capacity(s) == Study[s][1].maxMembers[1]

\* C1: with maxMembers = N fixed, the number of APPROVED rows of a study
\* (the leader's included) is at most N after any sequence of createStudy,
\* join, setMemberStatus, removeMember and leave requests that do not overlap.
C1_CapacityBound ==
    \A s \in StudyIds : Declares(s) => ApprovedCount(db, s, {}) <= Capacity(s)

\* C2: the capacity bound survives overlapping setMemberStatus(APPROVED)
\* requests: whatever the interleaving of their store calls, a study of
\* capacity N never has more than N APPROVED rows.  Stated for N >= 1, the
\* capacities for which requests that do not overlap keep the bound.
C2_CapacityBoundConcurrent ==
    \A s \in StudyIds :
        Declares(s) /\ Capacity(s) >= 1 => ApprovedCount(db, s, {}) <= Capacity(s)

\* C3: setMemberStatus(APPROVED) on a non-leader row answers 409 STUDY_FULL
\* exactly when the study has a maxMembers and the APPROVED rows other than
\* the target's are >= maxMembers; then no row changes, and otherwise the
\* target's status becomes APPROVED.
C3_ApproveFailsExactlyWhenFull ==
    [][\A actor \in Users, s \in StudyIds, u \in Users :
        ( /\ SetMemberStatus(actor, s, u, "APPROVED")
          /\ MayManage(actor, s)
          /\ Row(s, u) # << >>
          /\ ~IsLeaderRow(s, u) )
        => LET full == Declares(s) /\ ApprovedCount(db, s, {u}) >= Capacity(s) IN
           /\ (last'.http = 409 /\ last'.code = "STUDY_FULL") <=> full
           /\ full => StudyMember' = StudyMember
           /\ ~full => StudyMember'[<<s, u>>][1].status = "APPROVED"]_vars

\* C4: setMemberStatus (any valid status), removeMember and leave answer
\* INVALID_OPERATION when the targeted row has role LEADER, and leave that
\* row as it was: present, LEADER, APPROVED.
C4_LeaderInvariance ==
    [][\A actor \in Users, s \in StudyIds, u \in Users :
        IsLeaderRow(s, u) =>
            LET refused == /\ last'.code = "INVALID_OPERATION"
                           /\ StudyMember' = StudyMember
                           /\ StudyMember'[<<s, u>>] = <<LeaderRow>>
            IN
            /\ \A status \in MemberStatuses :
                    SetMemberStatus(actor, s, u, status) /\ MayManage(actor, s)
                        => refused
            /\ RemoveMember(actor, s, u) /\ MayManage(actor, s) => refused
            /\ Leave(u, s) => refused]_vars

C4_Witness ==
    /\ last.op = "leave"
    /\ last.code = "INVALID_OPERATION"
    /\ \E s \in StudyIds : Study[s] # Null /\ Row(s, Study[s][1].leaderId) = <<LeaderRow>>

\* C5: every existing study has exactly one LEADER row; it is the row of the
\* study's leaderId and its status is APPROVED.
C5_ExactlyOneLeader ==
    \A s \in StudyIds :
        Study[s] # Null =>
            /\ {u \in Users : \E i \in DOMAIN Row(s, u) : Row(s, u)[i].memberRole = "LEADER"}
                    = {Study[s][1].leaderId}
            /\ Row(s, Study[s][1].leaderId) = <<LeaderRow>>

C5_Witness ==
    /\ last.op \in {"setMemberStatus", "removeMember"}
    /\ last.code = "INVALID_OPERATION"
    /\ \E s \in StudyIds, u \in Users : HasStatus(s, u, {"APPROVED"}) /\ ~IsLeaderRow(s, u)

\* C6: the StudyMember table never holds two rows of the same (studyId,
\* userId), also when two joins of one user overlap between findUnique and
\* create.
C6_OneRowPerPair == \A k \in StudyIds \X Users : Len(StudyMember[k]) <= 1

\* a join about to create its row after an overlapping join has created it
C6_Witness ==
    \E q \in Reqs :
        /\ reqs[q].op = "join"
        /\ reqs[q].pc = "create"
        /\ Row(reqs[q].studyId, reqs[q].actor) = <<PendingRow>>

\* C7: createStudy is all-or-nothing: no Study row exists without the
\* LEADER/APPROVED row of its creator, and a createStudy that fails leaves
\* neither row.
C7_CreateStudyAtomic ==
    /\ [](\A s \in StudyIds :
            Study[s] # Null =>
                \E i \in DOMAIN Row(s, Study[s][1].leaderId) :
                    Row(s, Study[s][1].leaderId)[i] = LeaderRow)
    /\ [][\A actor \in Users, body \in Bodies, fault \in BOOLEAN :
            CreateStudy(actor, body, fault) /\ last'.code # "OK"
                => Study' = Study /\ StudyMember' = StudyMember]_vars

C7_Witness ==
    /\ last.op = "createStudy"
    /\ last.code = "INTERNAL_ERROR"
    /\ \A s \in StudyIds : Study[s] = Null /\ \A u \in Users : Row(s, u) = << >>

\* C8: a join by a user whose row in the study is REJECTED succeeds and
\* resets that one row to PENDING.
C8_RejoinAfterRejected ==
    [][\A actor \in Users, s \in StudyIds :
        Join(actor, s) /\ Study[s] # Null /\ HasStatus(s, actor, {"REJECTED"})
            => /\ last'.http = 201
               /\ StudyMember'[<<s, actor>>] = <<[Row(s, actor)[1] EXCEPT !.status = "PENDING"]>>]_vars

\* C9: a join by a user who holds a PENDING or APPROVED row (the leader
\* included) answers 409 ALREADY_JOINED and changes nothing; a join by a user
\* with no row creates a MEMBER/PENDING row and answers 201.
C9_JoinOutcome ==
    [][\A actor \in Users, s \in StudyIds :
        Join(actor, s) /\ Study[s] # Null
            => /\ HasStatus(s, actor, {"PENDING", "APPROVED"})
                    => /\ last'.http = 409
                       /\ last'.code = "ALREADY_JOINED"
                       /\ StudyMember' = StudyMember
               /\ Row(s, actor) = << >>
                    => /\ last'.http = 201
                       /\ StudyMember'[<<s, actor>>] = <<PendingRow>>]_vars

\* C10: join does not look at the capacity: a user with no row gets a PENDING
\* row even when the APPROVED rows already reach or exceed maxMembers.
C10_JoinIgnoresCapacity ==
    [][\A actor \in Users, s \in StudyIds :
        ( /\ Join(actor, s)
          /\ Row(s, actor) = << >>
          /\ Declares(s)
          /\ ApprovedCount(db, s, {}) >= Capacity(s) )
        => /\ last'.http = 201
           /\ StudyMember'[<<s, actor>>] = <<PendingRow>>]_vars

\* ------------------------------------------------- attendance properties
Records(i, u) == AttendanceRecord[<<i, u>>]

Approved(s, u) == HasStatus(s, u, {"APPROVED"})

\* session i exists and belongs to study s
SessionOf(i, s) == i \in SessionsOf(db, s)

StoreUnchanged ==
    UNCHANGED <<Study, StudyMember, nextStudyId, AttendanceSession, AttendanceRecord,
                nextSessionId, nextRecordId>>

\* C11: a recordAttendance call of an APPROVED member for a session of the
\* study answers 201 and leaves exactly one record of the (session, user)
\* pair, holding the status of this call, whatever the pair held before; no
\* other pair and no other table changes, and a call that repeats the status
\* the record already has changes nothing at all.
\* (Each implication "request => outcome" is written "outcome \/ ~request",
\* after the operation the response names.)
C11_AttendanceIdempotent ==
    [][\A actor \in Users, s \in StudyIds, i \in SessionIds, status \in AttendanceStatuses :
        Approved(s, actor) /\ SessionOf(i, s) =>
            \/ last'.op # "recordAttendance"
            \/ /\ last'.http = 201
               /\ Len(AttendanceRecord'[<<i, actor>>]) = 1
               /\ AttendanceRecord'[<<i, actor>>][1].status = status
               /\ \A k \in SessionIds \X Users :
                        k # <<i, actor>> => AttendanceRecord'[k] = AttendanceRecord[k]
               /\ UNCHANGED <<Study, StudyMember, nextStudyId, AttendanceSession, nextSessionId>>
               /\ (Records(i, actor) # << >> /\ Records(i, actor)[1].status = status)
                        => StoreUnchanged
            \/ ~RecordAttendance(actor, s, i, status, FALSE)]_vars

\* the last call rewrote record 1 after a later record had been created
C11_Witness ==
    /\ last.op = "recordAttendance"
    /\ last.http = 201
    /\ last.body[1].id = 1
    /\ nextRecordId = 3

\* C12: no (sessionId, userId) pair ever has two AttendanceRecord rows, also
\* when two recordAttendance requests of one user for one session overlap
\* between findFirst and the update or create that follows it.
C12_OneRecordPerPair == \A k \in SessionIds \X Users : Len(AttendanceRecord[k]) <= 1

\* C13: listSessions and recordAttendance (with a valid status) answer 403
\* and change nothing while the caller's membership in the study is absent,
\* PENDING or REJECTED; with an APPROVED membership listSessions answers 200
\* and recordAttendance for a session of the study answers 201.  A request
\* that changes the AttendanceRecord table changes the caller's pair only,
\* and the caller's membership was APPROVED when it ran.
C13_ApprovedMembersOnly ==
    [][\A actor \in Users, s \in StudyIds :
        LET refused == last'.http = 403 /\ StoreUnchanged IN
        /\ \/ last'.op # "listSessions"
           \/ IF Approved(s, actor) THEN last'.http = 200 ELSE refused
           \/ ~ListSessions(actor, s)
        /\ \A i \in SessionIds, status \in AttendanceStatuses :
                \/ last'.op # "recordAttendance"
                \/ IF Approved(s, actor) THEN SessionOf(i, s) => last'.http = 201
                   ELSE refused
                \/ ~RecordAttendance(actor, s, i, status, FALSE)
        /\ \A i \in SessionIds, status \in AttendanceInputs :
                \/ AttendanceRecord' = AttendanceRecord
                \/ /\ Approved(s, actor)
                   /\ \A k \in SessionIds \X Users :
                        k # <<i, actor>> => AttendanceRecord'[k] = AttendanceRecord[k]
                \/ ~RecordAttendance(actor, s, i, status, FALSE)]_vars

\* a member who is not the leader has been approved and has recorded attendance
C13_Witness ==
    /\ last.op = "recordAttendance"
    /\ last.http = 201
    /\ \E s \in StudyIds, i \in SessionIds, u \in Users :
            /\ Records(i, u) # << >>
            /\ SessionOf(i, s)
            /\ Row(s, u) = <<[memberRole |-> "MEMBER", status |-> "APPROVED"]>>

\* the number of AttendanceRecord rows of status st whose session belongs to
\* study s and has its date within [from, to] (a bound that is absent is open)
Counted(s, from, to, st) ==
    LET within == {i \in SessionIds :
                    /\ AttendanceSession[i] # << >>
                    /\ AttendanceSession[i][1].studyId = s
                    /\ from.kind = "date" => from.d <= AttendanceSession[i][1].date
                    /\ to.kind = "date" => AttendanceSession[i][1].date <= to.d}
    IN  Cardinality({x \in within \X Users \X (1..(MaxRecordId + 1)) :
            /\ x[3] <= Len(AttendanceRecord[<<x[1], x[2]>>])
            /\ AttendanceRecord[<<x[1], x[2]>>][x[3]].status = st})

\* C17: the summary of study s that its leader asks for with from and to
\* absent or valid dates answers 200 and, for every status, the number of
\* records of that status whose session belongs to s and has from <= date
\* <= to (a status without records is left out, which reads as 0); total is
\* the sum of the per-status counts, so records of other studies or of
\* sessions outside the range are never counted; the store is unchanged.
C17_SummaryCounts ==
    [][\A actor \in Users, s \in AllStudyIds, from \in RangeInputs, to \in RangeInputs :
        (Study[s] # << >> /\ Study[s][1].leaderId = actor) =>
            \/ last'.op # "summary"
            \/ LET counted == [st \in AttendanceStatuses |-> Counted(s, from, to, st)] IN
               /\ last'.http = 200
               /\ DOMAIN last'.body[1].counts \subseteq AttendanceStatuses
               /\ \A st \in AttendanceStatuses :
                    (IF st \in DOMAIN last'.body[1].counts
                     THEN last'.body[1].counts[st] ELSE 0) = counted[st]
               /\ last'.body[1].total =
                    counted["PRESENT"] + counted["LATE"] + counted["ABSENT"]
               /\ StoreUnchanged
            \/ ~Summary(actor, s, from, to)]_vars

\* two records exist and the summary that was asked for counted one of them
C17_Witness ==
    /\ last.op = "summary"
    /\ last.http = 200
    /\ last.body[1].total = 1
    /\ nextRecordId = 3

\* round(attended / totalSessions * 100, 2 decimals) in hundredths of a
\* percent, 0 for a study without sessions
RateOf(attended, totalSessions) ==
    IF totalSessions > 0
    THEN (attended * 20000 + totalSessions) \div (2 * totalSessions)
    ELSE 0

\* C18: a per-user attendance summary that is served (200) carries
\* attendanceRate = (present + late) / totalSessions * 100 rounded to two
\* decimals, totalSessions being the number of sessions of the study, and
\* attendanceRate 0 when the study has no session.
C18_UserSummaryRate ==
    [][\A actor \in Users, s \in StudyIds, u \in Users :
        \/ last'.op # "userSummary"
        \/ last'.http # 200
        \/ /\ "attendanceRate" \in DOMAIN last'.body[1]
           /\ last'.body[1].attendanceRate =
                RateOf(Cardinality({x \in SessionsOf(db, s) \X (1..(MaxRecordId + 1)) :
                                        /\ x[2] <= Len(Records(x[1], u))
                                        /\ Records(x[1], u)[x[2]].status \in {"PRESENT", "LATE"}}),
                       Cardinality(SessionsOf(db, s)))
        \/ ~UserSummary(actor, s, u)]_vars

\* C19: the summary of a study and the attendance list of one of its
\* sessions (by either route) answer 200 to the study's leader and to an
\* ADMIN, and 403 to every other caller, APPROVED members included.
C19_LeaderOrAdminOnly ==
    [][\A actor \in Users, s \in StudyIds :
        LET served == last'.http = 200
            refused == last'.http = 403
            allowed == Study[s][1].leaderId = actor \/ UserRole[actor] = "ADMIN"
        IN  Study[s] # << >> =>
            /\ \/ last'.op # "summary"
               \/ IF allowed THEN served ELSE refused
               \/ ~Summary(actor, s, NoDate, NoDate)
            /\ \A i \in SessionIds : SessionOf(i, s) =>
                /\ \/ last'.op # "listAttendance"
                   \/ IF allowed THEN served ELSE refused
                   \/ ~ListAttendance(actor, s, i)
                /\ \/ last'.op # "sessionAttendance"
                   \/ IF allowed THEN served ELSE refused
                   \/ ~SessionAttendance(actor, i)]_vars

\* C20: whatever page and size are (absent, not a number, zero, negative,
\* larger than the maximum), parsePagination returns page >= 1 and
\* 1 <= pageSize <= 50, page 1 and pageSize 10 when the input is absent,
\* skip = (page - 1) * pageSize and take = pageSize.
C20_PaginationBounds ==
    last.op = "parsePagination" =>
        LET r == last.body[1] IN
        /\ r.page >= 1
        /\ r.pageSize >= 1
        /\ r.pageSize <= 50
        /\ reqs[1].page.kind = "absent" => r.page = 1
        /\ reqs[1].size.kind = "absent" => r.pageSize = 10
        /\ r.skip = (r.page - 1) * r.pageSize
        /\ r.take = r.pageSize

\* a size above the maximum was cut to 50 on a page after the first
C20_Witness ==
    /\ last.op = "parsePagination"
    /\ reqs[1].size.kind = "number"
    /\ reqs[1].size.n > 50
    /\ last.body[1].pageSize = 50
    /\ last.body[1].page = 2
    /\ last.body[1].skip = 50

\* pair k has been signed
Signed(k) == k \in DOMAIN issued

C15_RefreshSingleUse ==
    [][\A k \in PairIds :
        (Signed(k) /\ issued[k].rotated) =>
            \/ last'.op # "refresh"
            \/ last'.http = 401 /\ Len(issued') = Len(issued)
            \/ ~Refresh(k)]_vars

\* token 1 was rotated into pair 2, pair 2 was logged out, and a refresh
\* was then refused as revoked
C15_Witness ==
    /\ last.op = "refresh"
    /\ last.http = 401
    /\ last.code = "TOKEN_REVOKED"
    /\ Len(issued) = 2
    /\ issued[1].rotated
    /\ issued[2].refreshOut
    /\ ~issued[2].rotated

\* an email with its capitals folded
Folded(email) == [n \in DOMAIN email |-> CASE email[n] = "A" -> "a" [] OTHER -> email[n]]

C29_SessionOfThePath ==
    [][\A actor \in Users, s \in AllStudyIds, i \in SessionIds, status \in AttendanceStatuses :
        \/ last'.op # "recordAttendance"
        \/ /\ (Approved(s, actor) /\ ~SessionOf(i, s)) =>
                    /\ last'.http = 404
                    /\ last'.code = "SESSION_NOT_FOUND"
                    /\ StoreUnchanged
           /\ AttendanceRecord' # AttendanceRecord => SessionOf(i, s) /\ Approved(s, actor)
        \/ ~RecordAttendance(actor, s, i, status, FALSE)]_vars

\* two studies of different leaders have one session each, and a leader who
\* named a session (both exist) was answered that it is not found
C29_Witness ==
    /\ last.op = "recordAttendance"
    /\ last.code = "SESSION_NOT_FOUND"
    /\ AttendanceSession[1] # << >>
    /\ AttendanceSession[2] # << >>
    /\ AttendanceSession[1][1].studyId # AttendanceSession[2][1].studyId
    /\ Study[1][1].leaderId # Study[2][1].leaderId

\* C30: while a user has no membership row in a study, or a PENDING or
\* REJECTED one, their listSessions and recordAttendance calls for the study
\* are answered 403 and change nothing.  A user without a row gets one only
\* as PENDING (a join), so APPROVED is reached again only through the
\* leader's approval.  leave, removeMember and setMemberStatus leave the
\* AttendanceRecord table as it is.
C30_NoAccessAfterRemoval ==
    [][/\ last'.op \in {"leave", "removeMember", "setMemberStatus"} =>
                AttendanceRecord' = AttendanceRecord
       /\ \A u \in Users, s \in StudyIds :
            /\ (Study[s] # << >> /\ Row(s, u) = << >>) =>
                    Row(s, u)' = << >> \/ Row(s, u)' = <<PendingRow>>
            /\ ~Approved(s, u) =>
                /\ \/ last'.op # "listSessions"
                   \/ last'.http = 403 /\ StoreUnchanged
                   \/ ~ListSessions(u, s)
                /\ \A i \in SessionIds, status \in AttendanceStatuses :
                   \/ last'.op # "recordAttendance"
                   \/ last'.http = 403 /\ StoreUnchanged
                   \/ ~RecordAttendance(u, s, i, status, FALSE)]_vars

\* a user with an attendance record has no membership row any more, the two
\* other users are APPROVED, and a recordAttendance call was refused
C30_Witness ==
    /\ last.op = "recordAttendance"
    /\ last.http = 403
    /\ \E s \in StudyIds, i \in SessionIds, u \in Users :
            /\ SessionOf(i, s)
            /\ Records(i, u) # << >>
            /\ Row(s, u) = << >>
            /\ \A v \in Users \ {u} : Approved(s, v)

\* C27: an updateStudy request keeps the capacity bound: if the APPROVED
\* rows of the study were within its maxMembers before the PATCH (or it had
\* none), they are within the maxMembers the study has after it.  Stated for
\* a new maxMembers >= 1.
C27_UpdateKeepsCapacity ==
    [][\A s \in StudyIds :
        (/\ last'.op = "updateStudy"
         /\ Declares(s) => ApprovedCount(db, s, {}) <= Capacity(s)
         /\ (Declares(s))'
         /\ (Capacity(s))' >= 1) =>
            (ApprovedCount(db, s, {}))' <= (Capacity(s))']_vars

\* every StudyMember and AttendanceSession row references a Study row and
\* every AttendanceRecord row an AttendanceSession row
ReferentialIntegrity ==
    /\ \A k \in AllStudyIds \X Users : StudyMember[k] # << >> => Study[k[1]] # << >>
    /\ \A i \in SessionIds :
            AttendanceSession[i] # << >> => Study[AttendanceSession[i][1].studyId] # << >>
    /\ \A k \in SessionIds \X Users : AttendanceRecord[k] # << >> => AttendanceSession[k[1]] # << >>

\* the rows that depend on study s
RowsOf(s) ==
    [members |-> [u \in Users |-> StudyMember[<<s, u>>]],
     sessions |-> [i \in SessionIds |->
                    IF AttendanceSession[i] # << >> /\ AttendanceSession[i][1].studyId = s
                    THEN <<AttendanceSession[i], [u \in Users |-> AttendanceRecord[<<i, u>>]]>>
                    ELSE << >>]]

\* C26: referential integrity holds in every reachable state; a deleteStudy
\* request removes the study with all its memberships, sessions and records
\* or removes nothing, and touches no other study; a deleteSession request
\* that removes a session leaves no record of it.
C26_ReferentialIntegrity ==
    /\ []ReferentialIntegrity
    /\ [][last'.op = "deleteStudy" =>
            \A s \in AllStudyIds :
                IF Study[s] # << >> /\ Study'[s] = << >>
                THEN /\ \A u \in Users : StudyMember'[<<s, u>>] = << >>
                     /\ \A i \in SessionIds :
                            (AttendanceSession[i] # << >> /\ AttendanceSession[i][1].studyId = s) =>
                                /\ AttendanceSession'[i] = << >>
                                /\ \A u \in Users : AttendanceRecord'[<<i, u>>] = << >>
                ELSE Study'[s] = Study[s] /\ (RowsOf(s))' = RowsOf(s)]_vars
    /\ [][last'.op = "deleteSession" =>
            \A i \in SessionIds :
                (AttendanceSession[i] # << >> /\ AttendanceSession'[i] = << >>) =>
                    \A u \in Users : AttendanceRecord[<<i, u>>] = << >>
                                      /\ AttendanceRecord'[<<i, u>>] = << >>]_vars

\* the deletion of a session that has a record was refused, and the session
\* and its record are still there
C26_Witness ==
    /\ last.op = "deleteSession"
    /\ last.http = 500
    /\ \E i \in SessionIds, u \in Users :
            AttendanceSession[i] # << >> /\ AttendanceRecord[<<i, u>>] # << >>

\* C21: a token of a freshly minted pair verifies before its expiry: the
\* access token gives sub = id, the role and type access, the refresh token
\* gives sub = id, the role, type refresh and the sessionId that
\* signRefreshToken returned.
C21_FreshPairVerifies ==
    \A k \in DOMAIN issued :
        LET p == issued[k] IN
        /\ (/\ last.op = "verifyAccessToken"
            /\ last.body.token = p.access
            /\ last.body.at < p.access.payload.iat.n + AccessTtl) =>
                /\ ~last.body.thrown
                /\ last.body.payload[1].sub = Num(p.user.id)
                /\ last.body.payload[1].role = Str(p.user.role)
                /\ last.body.payload[1].type = Str("access")
        /\ (/\ last.op = "verifyRefreshToken"
            /\ last.body.token = p.refresh
            /\ last.body.at < p.refresh.payload.iat.n + RefreshTtl) =>
                /\ ~last.body.thrown
                /\ last.body.payload[1].sub = Num(p.user.id)
                /\ last.body.payload[1].role = Str(p.user.role)
                /\ last.body.payload[1].type = Str("refresh")
                /\ last.body.payload[1].sessionId = p.sessionId

\* the refresh token of the second pair was verified one tick after it was
\* minted and gave the session id of its own pair
C21_Witness ==
    /\ Len(issued) = 2
    /\ last.op = "verifyRefreshToken"
    /\ last.body.token = issued[2].refresh
    /\ last.body.at = issued[2].refresh.payload.iat.n + 1
    /\ ~last.body.thrown
    /\ last.body.payload[1].sessionId = issued[2].sessionId
    /\ last.body.payload[1].sessionId # issued[1].sessionId

\* C23: verifyAccessToken throws 401 INVALID_TOKEN for every token minted
\* by signRefreshToken, verifyRefreshToken for every token minted by
\* signAccessToken and for a refresh-typed token without sessionId; a
\* verification that throws always throws 401 INVALID_TOKEN.
C23_NotInterchangeable ==
    /\ last.op \in {"verifyAccessToken", "verifyRefreshToken"} =>
        /\ last.body.thrown => last.http = 401 /\ last.code = "INVALID_TOKEN"
        /\ (\/ last.body.token.kind # "jwt"
            \/ last.body.token.key \notin {env.JWT_ACCESS_SECRET, env.JWT_REFRESH_SECRET}
            \/ last.body.at >= last.body.token.payload.exp.n
            \/ last.body.token.payload.sub \in {Undefined, Str("abc")}
            \/ last.body.token.payload.role \in {Undefined, Num(1)}
            \/ last.body.token.payload.type = Undefined) => last.body.thrown
    /\ (/\ last.op = "verifyAccessToken"
        /\ \E k \in DOMAIN issued : last.body.token = issued[k].refresh) => last.body.thrown
    /\ last.op = "verifyRefreshToken" =>
        /\ (\E k \in DOMAIN issued : last.body.token = issued[k].access) => last.body.thrown
        /\ (/\ last.body.token.kind = "jwt"
            /\ last.body.token.payload.type = Str("refresh")
            /\ last.body.token.payload.sessionId \in {Undefined, Str("")}) => last.body.thrown

\* where one secret signs both kinds of token, an unexpired minted refresh
\* token was refused by verifyAccessToken
C23_Witness ==
    /\ env.JWT_ACCESS_SECRET = env.JWT_REFRESH_SECRET
    /\ last.op = "verifyAccessToken"
    /\ \E k \in DOMAIN issued :
            /\ last.body.token = issued[k].refresh
            /\ last.body.at < issued[k].refresh.payload.exp.n
    /\ last.http = 401
    /\ last.code = "INVALID_TOKEN"

\* C24: both tokens of a minted pair carry sub, role, type and a token
\* identifier (jti) that no other minted token carries; the refresh token
\* carries the session id as well.
C24_UniqueTokenIdentifier ==
    /\ \A token \in Minted :
        /\ token.payload.sub.kind = "number"
        /\ token.payload.role.kind = "string"
        /\ token.payload.type \in {Str("access"), Str("refresh")}
        /\ token.payload.jti # Undefined
        /\ \A other \in Minted : other # token => other.payload.jti # token.payload.jti
    /\ \A k \in DOMAIN issued : issued[k].refresh.payload.sessionId = issued[k].sessionId

\* C25: the implementation of the fast store is chosen once: whatever the
\* interleaving of the first calls of redis.get/set/del/exists, the
\* connection is attempted at most once, every operation runs on the one
\* implementation chosen, and a key that was set and not deleted is found by
\* every later get and exists.
C25_ImplementationChosenOnce ==
    /\ redisModule.connects <= 1
    /\ Cardinality(redisModule.used) <= 1
    /\ redisModule.used \subseteq {redisModule.redisImpl}
    /\ \A q \in Reqs : redisModule.calls[q].pc = "op" =>
            redisModule.calls[q].impl = redisModule.redisImpl
    /\ last.op \in {"get", "exists"} =>
            (last.body.result \in {"value", "1"} <=> last.body.key \in redisModule.written)

\* two first calls overlapped: both waited for the one connection, it failed
\* outside production, and the key set by one call was found by the other
C25_Witness ==
    /\ env.REDIS_DISABLED = "false"
    /\ redisModule.connects = 1
    /\ redisModule.redisImpl = "inMemoryRedis"
    /\ last.op = "get"
    /\ last.body.result = "value"
    /\ last.body.impl = "inMemoryRedis"
    /\ \E q \in Reqs : redisModule.calls[q].pc = "op"

C28_OneRefreshWins ==
    [][\A q \in Reqs :
        (/\ reqs[q].op = "refresh"
         /\ reqs'[q] = Idle
         /\ last'.op = "refresh"
         /\ last'.http = 200) => ~issued[reqs[q].token].rotated]_vars

====
